---------------------------- MODULE Spec2Model ----------------------------
(***************************************************************************)
(* Service-governance core of go-zero: rolling window, Google-SRE breaker, *)
(* adaptive shedder, P2C picker, timing wheel, discovery registry and the  *)
(* expiring cache.  Every subsystem has its own variables, its own Init    *)
(* and Next and its own specification; while one subsystem runs the        *)
(* variables of the others are parked.                                     *)
(***************************************************************************)
EXTENDS Integers, Sequences, FiniteSets, Bags, TLC

VARIABLES
    rwWin,      \* RollingWindow: [offset, lastTime, ignoreCurrent, buckets]
    rwNow,      \* timex.Now() seen by the window
    rwLog,      \* history: interval-aligned bucket number -> what was added in it
    rwAdds,     \* number of Add calls made so far
    rwOut       \* what the last Reduce visited: [sum, count, wantSum, wantCount]

VARIABLES
    brStat,     \* googleBreaker.stat: the rolling window of outcomes
    brNow,      \* timex.Now() seen by the breaker
    brPending,  \* calls admitted by accept() whose outcome is not marked yet:
                \* promises of allow() not resolved, doReq calls running req
    brCalls,    \* number of accept() calls made so far
    brLast,     \* the last accept(): history, draw and result
    brDo        \* the doReq call that returned in the last step

VARIABLES
    shFlying,           \* adaptiveShedder.flying
    shAvgFlying,        \* adaptiveShedder.avgFlying, in 1/ShAvgScale
    shOverloadTime,     \* adaptiveShedder.overloadTime (0: never overloaded)
    shDroppedRecently,  \* adaptiveShedder.droppedRecently
    shPassCounter,      \* adaptiveShedder.passCounter
    shRtCounter,        \* adaptiveShedder.rtCounter
    shNow,              \* timex.Now() in ms
    shCpu,              \* stat.CpuUsage()
    shPromises,         \* promises not yet resolved: start time -> how many
    shPasses,           \* number of Pass calls made so far
    shRet,              \* what the step returned, when it was an Allow
    shCoolSince         \* since when the CPU reading is below the threshold, -1 if it is not

VARIABLES
    p2cConns,           \* p2cPicker.conns: sequence of subConn records
    p2cNow,             \* timex.Now, in ms
    p2cStamp,           \* p2cPicker.stamp
    p2cPending,         \* picks whose Done has not been invoked: [conn, start]
    p2cRunning,         \* Done callbacks between their loads and their stores
    p2cDones            \* number of Done callbacks invoked so far

VARIABLES
    twSlots,            \* TimingWheel.slots: slot -> list of entry ids
    twHeap,             \* the timingEntry objects: id -> [key, circle, diff, removed]
    twTimers,           \* TimingWheel.timers: key -> positionEntry [pos, item]
    twTickedPos,        \* TimingWheel.tickedPos
    twRan,              \* keys whose execute the last step started
    twSkipped,          \* keys whose removed entry the last tick dropped
    twPlan,             \* per key: what its caller was promised, ticks left
    twStop,             \* stopChannel: "open", "closed", or "returned" once run has returned
    twErr,              \* the error the call made in the last step returned
    twFired             \* per key: execute was started since its last SetTimer

VARIABLES
    regKv,              \* the coordinator: key -> value under the prefix (0: absent)
    regRev,             \* the coordinator's revision
    regLog,             \* the coordinator's events, one per revision
    regExists,          \* Registry.clusters holds the cluster
    regValues,          \* cluster.values[prefix]: [ok, m]
    regListeners,       \* cluster.listeners[prefix]
    regPc,              \* per listener: where its Monitor call stands
    regResp,            \* per listener: the response of the Get of its load
    regQueue,           \* per listener: callbacks its handleChanges still owes
    regWatch,           \* per listener: the watcher its Monitor started
    regAdds,            \* per listener and key: OnAdd calls received
    regWatched,         \* per listener: a watch-driven callback was received
    regLast,            \* the callback handleWatchEvents made in the last step
    regView,            \* per listener: the keys its OnAdd and OnDelete calls leave
    regHigh,            \* the highest revision values[prefix] has reflected
    regRestarts         \* times cluster.watch has called watchStream again

VARIABLES
    cacheData,          \* Cache.data[key]: the value, 0 when the key is absent
    cacheTimer,         \* the timing wheel holds an expiry task for the key
    cacheDelPc,         \* where the Del call of the other goroutine stands
    cacheHit,           \* cacheStat.hit
    cacheMiss,          \* cacheStat.miss
    cacheCalls,         \* the barrier: the call in flight for the key, 0 when none
    cacheFlights,       \* the barrier's calls that a caller still refers to
    cachePc,            \* per caller: where its Take stands
    cacheVal,           \* per caller: val of the closure, then of Take
    cacheErr,           \* per caller: err of the closure, then of Take
    cacheFresh,         \* per caller: the fresh flag of its Take
    cacheJoined,        \* per caller: the call it created or joined, 0 when none
    cacheFetched,       \* per caller: fetch invocations made by its Take
    cacheTakes          \* Take calls started so far

VARIABLES
    utNow,              \* the clock
    utDeadline,         \* the deadline of the context made by WithTimeout
    utCtxErr,           \* ctx.Err(): "nil" until the context is done
    utCtxTime,          \* when the context was done
    utPc,               \* where the interceptor stands
    utCase,             \* the case its select has taken
    utWorker,           \* where the goroutine running the handler stands
    utLock,             \* lock is held by the worker
    utResp,             \* resp, shared with the worker
    utErr,              \* err, shared with the worker
    utDone,             \* done is closed
    utPanicChan,        \* what panicChan holds, 0 when empty
    utRet,              \* what the interceptor gave back to its caller
    utFirst             \* which came first: the handler's end or the context's

VARIABLES
    sdNow,              \* time since the process started, in ms
    sdGrace,            \* delayTimeBeforeForceQuit, in ms
    sdPc,               \* where the signal goroutine of init stands
    sdSig,              \* the signal it is handling
    sdSigAt,            \* when that signal arrived
    sdDone,             \* the channel done is closed
    sdWake,             \* when its time.Sleep ends
    sdNotify,           \* per listener manager: where its notifyListeners call stands
    sdListeners,        \* per listener manager and listener: its state
    sdFiredAt,          \* per listener manager: when its listeners were fired, -1 if not
    sdKilledAt          \* when the process was killed, -1 if not

VARIABLES
    rlLock,             \* cluster.lock is held by a reload that is in watchGroup.Wait
    rlDone,             \* cluster.done is closed
    rlGroup,            \* which RoutineGroup cluster.watchGroup is: 0, 1, ...
    rlWatchers,         \* goroutines run by a watchGroup: slot -> [pc, group]
    rlReload,           \* calls of reload: call -> where it stands
    rlMonitor,          \* where the Monitor call in progress stands
    rlEvents            \* watch responses the coordinator still sends

VARIABLES
    lcData,             \* Cache.data of a cache with a limit: the keys present
    lcList,             \* keyLru.evicts, front first (keyLru.elements is its key set)
    lcTimers,           \* the keys that have a timer on the cache's timing wheel
    lcPc,               \* per goroutine: the timer call it makes after c.lock.Unlock
    lcRecent,           \* the keys present, most recently set or read first
    lcEvicted,          \* keys evicted on overflow and not set again since
    lcLast              \* the key the last step evicted on overflow, 0 if none

VARIABLES
    wlPc,               \* per caller: how many of its operations it has issued
    wlPend,             \* per caller: its messages offered on a channel and not received
    wlLoop,             \* the message TimingWheel.run is handling, or that it is at its select
    wlLog,              \* the messages handled so far, in the order of handling
    wlTicks             \* ticks received so far

VARIABLES
    thPc,               \* where timeoutHandler.ServeHTTP stands
    thCtxErr,           \* ctx.Err(): "nil" until the request context is done
    thHandler,          \* where the goroutine running the wrapped handler stands
    thCalls,            \* calls the handler has made on its ResponseWriter
    thBuf,              \* timeoutWriter.wbuf: the number of chunks buffered
    thWroteHeader,      \* timeoutWriter.wroteHeader
    thCode,             \* timeoutWriter.code
    thTimedOut,         \* timeoutWriter.timedOut
    thOut,              \* the calls made on the underlying ResponseWriter, in order
    thLast              \* what the handler's last call on the timeoutWriter gave

VARIABLES
    icConf,             \* RpcServerConf: which of CpuThreshold, Timeout, Auth are set
    icPc,               \* how far the construction of the server has come
    icAdded,            \* baseRpcServer.unaryInterceptors, as added before Start
    icChain,            \* the interceptors handed to grpc by Start, outermost first
    icState,            \* the state of the request in the chain
    icTrace,            \* the interceptors the request has entered, in order
    icBy,               \* the interceptor that rejected the request, "" if none
    icReqs              \* requests served so far

VARIABLES
    lmListeners,        \* lm.listeners: the registered functions, in order
    lmOrder,            \* every function ever registered, in the order of registration
    lmLock,             \* the caller of notifyListeners holding lm.lock, 0 if free
    lmNotify,           \* per caller of notifyListeners: where it stands
    lmState,            \* per function: the state of the goroutine running it
    lmRuns,             \* per function: how often it was invoked
    lmFires             \* calls of notifyListeners so far

VARIABLES
    sgServices,         \* sg.services
    sgAdded,            \* the services in the order in which they were added
    sgListener,         \* the shutdown listener registered by Start
    sgOnce,             \* the sync.Once behind sg.stopOnce
    sgPc,               \* per caller of sg.stopOnce: where it stands
    sgCalls,            \* calls of sg.stopOnce so far
    sgRange,            \* doStop: the slice its loop ranges over
    sgNext,             \* doStop: the index of the service it stops next
    sgStopped           \* the services whose Stop was called, in the order of the calls

VARIABLES
    ewWin,              \* the errorWindow: reasons, index, count
    ewLog,              \* every reason handed to add, in the order of the calls
    ewNow               \* time.Now(), in seconds

VARIABLES
    ltAccepts,          \* the accepts in the window of the googleBreaker
    ltTotal,            \* the requests in the window of the googleBreaker
    ltWin,              \* lt.errWin
    ltHeld,             \* promises handed out by allow and not settled
    ltRunning,          \* doReq calls whose req is running
    ltMarking,          \* failures about to call markFailure
    ltReport,           \* the last report of logError
    ltCalls             \* calls of allow and doReq so far

VARIABLES
    mrRtCounter,        \* as.rtCounter
    mrPassCounter,      \* as.passCounter
    mrNow,              \* the clock, in ms
    mrPasses,           \* calls of Pass so far
    mrZero              \* a Pass has recorded a request that took no time

VARIABLES
    pkConns,            \* p.conns
    pkPc,               \* where the Pick call stands
    pkI,                \* the loop variable i of the sampling loop
    pkNode1,            \* node1, as an index into p.conns, 0 for nil
    pkNode2,            \* node2, likewise
    pkAttempts,         \* the index pairs (a, b) drawn so far, in order
    pkChosen            \* the conn Pick returned, 0 if none

rwVars == <<rwWin, rwNow, rwLog, rwAdds, rwOut>>

brVars == <<brStat, brNow, brPending, brCalls, brLast, brDo>>

shVars == <<shFlying, shAvgFlying, shOverloadTime, shDroppedRecently, shPassCounter,
            shRtCounter, shNow, shCpu, shPromises, shPasses, shRet, shCoolSince>>

p2cVars == <<p2cConns, p2cNow, p2cStamp, p2cPending, p2cRunning, p2cDones>>

twVars == <<twSlots, twHeap, twTimers, twTickedPos, twRan, twSkipped, twPlan, twStop,
            twErr, twFired>>

regVars == <<regKv, regRev, regLog, regExists, regValues, regListeners, regPc, regResp,
             regQueue, regWatch, regAdds, regWatched, regLast, regView, regHigh,
             regRestarts>>

cacheVars == <<cacheData, cacheTimer, cacheDelPc, cacheHit, cacheMiss, cacheCalls,
               cacheFlights, cachePc, cacheVal, cacheErr, cacheFresh, cacheJoined,
               cacheFetched, cacheTakes>>

utVars == <<utNow, utDeadline, utCtxErr, utCtxTime, utPc, utCase, utWorker, utLock,
            utResp, utErr, utDone, utPanicChan, utRet, utFirst>>

sdVars == <<sdNow, sdGrace, sdPc, sdSig, sdSigAt, sdDone, sdWake, sdNotify,
            sdListeners, sdFiredAt, sdKilledAt>>

rlVars == <<rlLock, rlDone, rlGroup, rlWatchers, rlReload, rlMonitor, rlEvents>>

lcVars == <<lcData, lcList, lcTimers, lcPc, lcRecent, lcEvicted, lcLast>>

wlVars == <<wlPc, wlPend, wlLoop, wlLog, wlTicks>>

thVars == <<thPc, thCtxErr, thHandler, thCalls, thBuf, thWroteHeader, thCode,
            thTimedOut, thOut, thLast>>

icVars == <<icConf, icPc, icAdded, icChain, icState, icTrace, icBy, icReqs>>

lmVars == <<lmListeners, lmOrder, lmLock, lmNotify, lmState, lmRuns, lmFires>>

sgVars == <<sgServices, sgAdded, sgListener, sgOnce, sgPc, sgCalls, sgRange, sgNext,
            sgStopped>>

ewVars == <<ewWin, ewLog, ewNow>>

ltVars == <<ltAccepts, ltTotal, ltWin, ltHeld, ltRunning, ltMarking, ltReport, ltCalls>>

mrVars == <<mrRtCounter, mrPassCounter, mrNow, mrPasses, mrZero>>

pkVars == <<pkConns, pkPc, pkI, pkNode1, pkNode2, pkAttempts, pkChosen>>

vars == <<rwVars, brVars, shVars, p2cVars, twVars, regVars, cacheVars, utVars, sdVars,
          rlVars, lcVars, wlVars, thVars, icVars, lmVars, sgVars, ewVars, ltVars,
          mrVars, pkVars>>

notRw == <<brVars, shVars, p2cVars, twVars, regVars, cacheVars, utVars, sdVars, rlVars,
           lcVars, wlVars, thVars, icVars, lmVars, sgVars, ewVars, ltVars, mrVars,
           pkVars>>

notBr == <<rwVars, shVars, p2cVars, twVars, regVars, cacheVars, utVars, sdVars, rlVars,
           lcVars, wlVars, thVars, icVars, lmVars, sgVars, ewVars, ltVars, mrVars,
           pkVars>>

notSh == <<rwVars, brVars, p2cVars, twVars, regVars, cacheVars, utVars, sdVars, rlVars,
           lcVars, wlVars, thVars, icVars, lmVars, sgVars, ewVars, ltVars, mrVars,
           pkVars>>

notP2c == <<rwVars, brVars, shVars, twVars, regVars, cacheVars, utVars, sdVars, rlVars,
            lcVars, wlVars, thVars, icVars, lmVars, sgVars, ewVars, ltVars, mrVars,
            pkVars>>

notTw == <<rwVars, brVars, shVars, p2cVars, regVars, cacheVars, utVars, sdVars, rlVars,
           lcVars, wlVars, thVars, icVars, lmVars, sgVars, ewVars, ltVars, mrVars,
           pkVars>>

notReg == <<rwVars, brVars, shVars, p2cVars, twVars, cacheVars, utVars, sdVars, rlVars,
            lcVars, wlVars, thVars, icVars, lmVars, sgVars, ewVars, ltVars, mrVars,
            pkVars>>

notCache == <<rwVars, brVars, shVars, p2cVars, twVars, regVars, utVars, sdVars, rlVars,
              lcVars, wlVars, thVars, icVars, lmVars, sgVars, ewVars, ltVars, mrVars,
              pkVars>>

notUt == <<rwVars, brVars, shVars, p2cVars, twVars, regVars, cacheVars, sdVars, rlVars,
           lcVars, wlVars, thVars, icVars, lmVars, sgVars, ewVars, ltVars, mrVars,
           pkVars>>

notSd == <<rwVars, brVars, shVars, p2cVars, twVars, regVars, cacheVars, utVars, rlVars,
           lcVars, wlVars, thVars, icVars, lmVars, sgVars, ewVars, ltVars, mrVars,
           pkVars>>

notRl == <<rwVars, brVars, shVars, p2cVars, twVars, regVars, cacheVars, utVars, sdVars,
           lcVars, wlVars, thVars, icVars, lmVars, sgVars, ewVars, ltVars, mrVars,
           pkVars>>

notLc == <<rwVars, brVars, shVars, p2cVars, twVars, regVars, cacheVars, utVars, sdVars,
           rlVars, wlVars, thVars, icVars, lmVars, sgVars, ewVars, ltVars, mrVars,
           pkVars>>

notWl == <<rwVars, brVars, shVars, p2cVars, twVars, regVars, cacheVars, utVars, sdVars,
           rlVars, lcVars, thVars, icVars, lmVars, sgVars, ewVars, ltVars, mrVars,
           pkVars>>

notTh == <<rwVars, brVars, shVars, p2cVars, twVars, regVars, cacheVars, utVars, sdVars,
           rlVars, lcVars, wlVars, icVars, lmVars, sgVars, ewVars, ltVars, mrVars,
           pkVars>>

notIc == <<rwVars, brVars, shVars, p2cVars, twVars, regVars, cacheVars, utVars, sdVars,
           rlVars, lcVars, wlVars, thVars, lmVars, sgVars, ewVars, ltVars, mrVars,
           pkVars>>

notLm == <<rwVars, brVars, shVars, p2cVars, twVars, regVars, cacheVars, utVars, sdVars,
           rlVars, lcVars, wlVars, thVars, icVars, sgVars, ewVars, ltVars, mrVars,
           pkVars>>

notSg == <<rwVars, brVars, shVars, p2cVars, twVars, regVars, cacheVars, utVars, sdVars,
           rlVars, lcVars, wlVars, thVars, icVars, lmVars, ewVars, ltVars, mrVars,
           pkVars>>

notEw == <<rwVars, brVars, shVars, p2cVars, twVars, regVars, cacheVars, utVars, sdVars,
           rlVars, lcVars, wlVars, thVars, icVars, lmVars, sgVars, ltVars, mrVars,
           pkVars>>

notLt == <<rwVars, brVars, shVars, p2cVars, twVars, regVars, cacheVars, utVars, sdVars,
           rlVars, lcVars, wlVars, thVars, icVars, lmVars, sgVars, ewVars, mrVars,
           pkVars>>

notMr == <<rwVars, brVars, shVars, p2cVars, twVars, regVars, cacheVars, utVars, sdVars,
           rlVars, lcVars, wlVars, thVars, icVars, lmVars, sgVars, ewVars, ltVars,
           pkVars>>

notPk == <<rwVars, brVars, shVars, p2cVars, twVars, regVars, cacheVars, utVars, sdVars,
           rlVars, lcVars, wlVars, thVars, icVars, lmVars, sgVars, ewVars, ltVars,
           mrVars>>

----------------------------------------------------------------------------
(* Parked subsystems *)

\* the window is not in use
RwPark ==
    /\ rwWin = 0
    /\ rwNow = 0
    /\ rwLog = 0
    /\ rwAdds = 0
    /\ rwOut = 0

\* the breaker is not in use
BrPark ==
    /\ brStat = 0
    /\ brNow = 0
    /\ brPending = 0
    /\ brCalls = 0
    /\ brLast = 0
    /\ brDo = 0

\* the shedder is not in use
ShPark ==
    /\ shFlying = 0
    /\ shAvgFlying = 0
    /\ shOverloadTime = 0
    /\ shDroppedRecently = 0
    /\ shPassCounter = 0
    /\ shRtCounter = 0
    /\ shNow = 0
    /\ shCpu = 0
    /\ shPromises = 0
    /\ shPasses = 0
    /\ shRet = 0
    /\ shCoolSince = 0

P2cPark ==
    /\ p2cConns = 0
    /\ p2cNow = 0
    /\ p2cStamp = 0
    /\ p2cPending = 0
    /\ p2cRunning = 0
    /\ p2cDones = 0

TwPark ==
    /\ twSlots = 0
    /\ twHeap = 0
    /\ twTimers = 0
    /\ twTickedPos = 0
    /\ twRan = 0
    /\ twSkipped = 0
    /\ twPlan = 0
    /\ twStop = 0
    /\ twErr = 0
    /\ twFired = 0

RegPark ==
    /\ regKv = 0
    /\ regRev = 0
    /\ regLog = 0
    /\ regExists = 0
    /\ regValues = 0
    /\ regListeners = 0
    /\ regPc = 0
    /\ regResp = 0
    /\ regQueue = 0
    /\ regWatch = 0
    /\ regAdds = 0
    /\ regWatched = 0
    /\ regLast = 0
    /\ regView = 0
    /\ regHigh = 0
    /\ regRestarts = 0

CachePark ==
    /\ cacheData = 0
    /\ cacheTimer = 0
    /\ cacheDelPc = 0
    /\ cacheHit = 0
    /\ cacheMiss = 0
    /\ cacheCalls = 0
    /\ cacheFlights = 0
    /\ cachePc = 0
    /\ cacheVal = 0
    /\ cacheErr = 0
    /\ cacheFresh = 0
    /\ cacheJoined = 0
    /\ cacheFetched = 0
    /\ cacheTakes = 0

UtPark ==
    /\ utNow = 0
    /\ utDeadline = 0
    /\ utCtxErr = 0
    /\ utCtxTime = 0
    /\ utPc = 0
    /\ utCase = 0
    /\ utWorker = 0
    /\ utLock = 0
    /\ utResp = 0
    /\ utErr = 0
    /\ utDone = 0
    /\ utPanicChan = 0
    /\ utRet = 0
    /\ utFirst = 0

SdPark ==
    /\ sdNow = 0
    /\ sdGrace = 0
    /\ sdPc = 0
    /\ sdSig = 0
    /\ sdSigAt = 0
    /\ sdDone = 0
    /\ sdWake = 0
    /\ sdNotify = 0
    /\ sdListeners = 0
    /\ sdFiredAt = 0
    /\ sdKilledAt = 0

RlPark ==
    /\ rlLock = 0
    /\ rlDone = 0
    /\ rlGroup = 0
    /\ rlWatchers = 0
    /\ rlReload = 0
    /\ rlMonitor = 0
    /\ rlEvents = 0

\* the cache with a limit is not in use
LcPark ==
    /\ lcData = 0
    /\ lcList = 0
    /\ lcTimers = 0
    /\ lcPc = 0
    /\ lcRecent = 0
    /\ lcEvicted = 0
    /\ lcLast = 0

\* the channels of the wheel are not in use
WlPark ==
    /\ wlPc = 0
    /\ wlPend = 0
    /\ wlLoop = 0
    /\ wlLog = 0
    /\ wlTicks = 0

\* the HTTP timeout handler is not in use
ThPark ==
    /\ thPc = 0
    /\ thCtxErr = 0
    /\ thHandler = 0
    /\ thCalls = 0
    /\ thBuf = 0
    /\ thWroteHeader = 0
    /\ thCode = 0
    /\ thTimedOut = 0
    /\ thOut = 0
    /\ thLast = 0

\* the interceptor chain is not in use
IcPark ==
    /\ icConf = 0
    /\ icPc = 0
    /\ icAdded = 0
    /\ icChain = 0
    /\ icState = 0
    /\ icTrace = 0
    /\ icBy = 0
    /\ icReqs = 0

\* the listener manager is not in use
LmPark ==
    /\ lmListeners = 0
    /\ lmOrder = 0
    /\ lmLock = 0
    /\ lmNotify = 0
    /\ lmState = 0
    /\ lmRuns = 0
    /\ lmFires = 0

\* the service group is not in use
SgPark ==
    /\ sgServices = 0
    /\ sgAdded = 0
    /\ sgListener = 0
    /\ sgOnce = 0
    /\ sgPc = 0
    /\ sgCalls = 0
    /\ sgRange = 0
    /\ sgNext = 0
    /\ sgStopped = 0

\* the error window is not in use
EwPark ==
    /\ ewWin = 0
    /\ ewLog = 0
    /\ ewNow = 0

\* the logged throttle is not in use
LtPark ==
    /\ ltAccepts = 0
    /\ ltTotal = 0
    /\ ltWin = 0
    /\ ltHeld = 0
    /\ ltRunning = 0
    /\ ltMarking = 0
    /\ ltReport = 0
    /\ ltCalls = 0

\* the counters of minRt are not in use
MrPark ==
    /\ mrRtCounter = 0
    /\ mrPassCounter = 0
    /\ mrNow = 0
    /\ mrPasses = 0
    /\ mrZero = 0

\* no Pick call is followed
PkPark ==
    /\ pkConns = 0
    /\ pkPc = 0
    /\ pkI = 0
    /\ pkNode1 = 0
    /\ pkNode2 = 0
    /\ pkAttempts = 0
    /\ pkChosen = 0

----------------------------------------------------------------------------
(* Helpers *)

Min(a, b) == IF a < b THEN a ELSE b

Max(a, b) == IF a > b THEN a ELSE b

RECURSIVE SumOver(_, _)
\* sum of the values of a function over the set S of its arguments
SumOver(f, S) ==
    IF S = {} THEN 0
    ELSE LET x == CHOOSE y \in S : TRUE
         IN  f[x] + SumOver(f, S \ {x})

RECURSIVE SumSeq(_, _)
\* sum of f over the elements of a sequence; f is "Sum" or "Count"
SumSeq(s, f) == IF s = <<>> THEN 0 ELSE Head(s)[f] + SumSeq(Tail(s), f)

----------------------------------------------------------------------------
(* core/collection/rollingwindow.go *)

\* bounds of the rolling-window runs
RwSize == 3

RwInterval == 2

RwMaxTime == 7

RwMaxValue == 2

RwMaxAdds == 4

EmptyBucket == [Sum |-> 0, Count |-> 0]

\* NewRollingWindow(size, interval, opts...): lastTime is the creation time
NewRollingWindow(size, now, ignore) ==
    [size |-> size, offset |-> 0, lastTime |-> now, ignoreCurrent |-> ignore,
     buckets |-> [i \in 0..(size - 1) |-> EmptyBucket]]

\* RollingWindow.span: whole intervals since lastTime, capped at size
RwSpan(rw, interval, now) ==
    LET offset == (now - rw.lastTime) \div interval
    IN  IF 0 <= offset /\ offset < rw.size THEN offset ELSE rw.size

\* updateOffset that advances without resetting the expired buckets
RwUpdateOffsetKeepsExpired(rw, interval, now) ==
    LET span == RwSpan(rw, interval, now)
    IN  IF span <= 0 THEN rw
        ELSE [rw EXCEPT
                !.offset = (rw.offset + span) % rw.size,
                !.lastTime = now - ((now - rw.lastTime) % interval)]

\* RollingWindow.updateOffset: reset the span expired buckets, advance offset,
\* align lastTime to the interval boundary
RwUpdateOffset(rw, interval, now) ==
    LET span == RwSpan(rw, interval, now)
    IN  IF span <= 0 THEN rw
        ELSE [rw EXCEPT
                !.buckets = [i \in 0..(rw.size - 1) |->
                               IF \E j \in 0..(span - 1) : i = (rw.offset + j + 1) % rw.size
                               THEN EmptyBucket ELSE rw.buckets[i]],
                !.offset = (rw.offset + span) % rw.size,
                !.lastTime = now - ((now - rw.lastTime) % interval)]

\* add that counts the value and sums the calls
BucketAddSwapped(b, v) == [Sum |-> b.Sum + 1, Count |-> b.Count + v]

\* Bucket.add through window.add
BucketAdd(b, v) == [Sum |-> b.Sum + v, Count |-> b.Count + 1]

\* Add that adds v to the current bucket first and slides afterwards
RwAddBeforeSlide(rw, interval, now, v) ==
    RwUpdateOffset([rw EXCEPT !.buckets[rw.offset % rw.size] =
                                 BucketAdd(rw.buckets[rw.offset % rw.size], v)],
                   interval, now)

\* RollingWindow.Add: slide, then add v to the current bucket
RwAdd(rw, interval, now, v) ==
    LET slid == RwUpdateOffset(rw, interval, now)
    IN  [slid EXCEPT !.buckets[slid.offset % slid.size] =
                        BucketAdd(slid.buckets[slid.offset % slid.size], v)]

\* RollingWindow.Reduce: the buckets fn is run on, in visiting order
RwReduce(rw, interval, now) ==
    LET span == RwSpan(rw, interval, now)
        diff == IF span = 0 /\ rw.ignoreCurrent THEN rw.size - 1 ELSE rw.size - span
        start == (rw.offset + span + 1) % rw.size
    IN  IF diff > 0
        THEN [i \in 1..diff |-> rw.buckets[(start + i - 1) % rw.size]]
        ELSE <<>>

\* --- history kept beside the window: Adds per interval-aligned bucket number
RwBucketNo(birth, now) == (now - birth) \div RwInterval

RwLogBuckets == 0..(RwMaxTime \div RwInterval)

\* the bucket numbers of the last size interval-aligned buckets at time now
RwWanted(now, ignore) ==
    LET cur == RwBucketNo(0, now)
    IN  {b \in RwLogBuckets : /\ b > cur - RwSize
                              /\ b <= cur
                              /\ (ignore => b # cur)}

RECURSIVE RwLogSum(_, _, _)
RwLogSum(log, bs, f) ==
    IF bs = {} THEN 0
    ELSE LET b == CHOOSE x \in bs : TRUE
         IN  log[b][f] + RwLogSum(log, bs \ {b}, f)

RwInit ==
    /\ rwNow = 0
    /\ \E ign \in BOOLEAN : rwWin = NewRollingWindow(RwSize, 0, ign)
    /\ rwLog = [b \in RwLogBuckets |-> EmptyBucket]
    /\ rwAdds = 0
    /\ rwOut = [sum |-> 0, count |-> 0, wantSum |-> 0, wantCount |-> 0, slid |-> FALSE]

\* time passes
RwTick ==
    /\ rwNow < RwMaxTime
    /\ rwNow' = rwNow + 1
    /\ UNCHANGED <<rwWin, rwLog, rwAdds, rwOut>>
    /\ UNCHANGED notRw

\* rw.Add(v)
RwAddCall ==
    /\ rwAdds < RwMaxAdds
    /\ \E v \in 0..RwMaxValue :
         /\ rwWin' = RwAdd(rwWin, RwInterval, rwNow, v)
         /\ rwLog' = [rwLog EXCEPT ![RwBucketNo(0, rwNow)] = BucketAdd(@, v)]
    /\ rwAdds' = rwAdds + 1
    /\ UNCHANGED <<rwNow, rwOut>>
    /\ UNCHANGED notRw

\* rw.Reduce(fn) with fn summing Sum and Count
RwReduceCall ==
    /\ LET visited == RwReduce(rwWin, RwInterval, rwNow)
           want == RwWanted(rwNow, rwWin.ignoreCurrent)
       IN  rwOut' = [sum |-> SumSeq(visited, "Sum"),
                     count |-> SumSeq(visited, "Count"),
                     wantSum |-> RwLogSum(rwLog, want, "Sum"),
                     wantCount |-> RwLogSum(rwLog, want, "Count"),
                     slid |-> RwSpan(rwWin, RwInterval, rwNow) > 0]
    /\ UNCHANGED <<rwWin, rwNow, rwLog, rwAdds>>
    /\ UNCHANGED notRw

RwNext == RwTick \/ RwAddCall \/ RwReduceCall

\* --- a window of 5 buckets of 100 ms, watched every 50 ms for 300 ms, with
\* two Adds; rwLog is the sequence of the Adds made, [t, v]
RwScenario == [size |-> 5, interval |-> 100, step |-> 50, last |-> 300, adds |-> 2]

RwScenarioInit ==
    /\ rwNow = 0
    /\ rwWin = NewRollingWindow(RwScenario.size, 0, FALSE)
    /\ rwLog = <<>>
    /\ rwAdds = 0
    /\ rwOut = [sum |-> 0, count |-> 0, wantSum |-> 0, wantCount |-> 0, slid |-> FALSE]

\* time passes
RwScenarioTick ==
    /\ rwNow < RwScenario.last
    /\ rwNow' = rwNow + RwScenario.step
    /\ UNCHANGED <<rwWin, rwLog, rwAdds, rwOut>>
    /\ UNCHANGED notRw

\* rw.Add(v)
RwScenarioAdd ==
    /\ rwAdds < RwScenario.adds
    /\ \E v \in 1..2 :
         /\ rwWin' = RwAdd(rwWin, RwScenario.interval, rwNow, v)
         /\ rwLog' = Append(rwLog, [t |-> rwNow, v |-> v])
    /\ rwAdds' = rwAdds + 1
    /\ UNCHANGED <<rwNow, rwOut>>
    /\ UNCHANGED notRw

\* rw.Reduce(fn) with fn summing Sum and Count
RwScenarioReduce ==
    /\ LET visited == RwReduce(rwWin, RwScenario.interval, rwNow)
       IN  rwOut' = [sum |-> SumSeq(visited, "Sum"),
                     count |-> SumSeq(visited, "Count"),
                     wantSum |-> 0, wantCount |-> 0,
                     slid |-> RwSpan(rwWin, RwScenario.interval, rwNow) > 0]
    /\ UNCHANGED <<rwWin, rwNow, rwLog, rwAdds>>
    /\ UNCHANGED notRw

RwScenarioNext == RwScenarioTick \/ RwScenarioAdd \/ RwScenarioReduce

----------------------------------------------------------------------------
(* breaker: googleBreaker (Google SRE client-side throttling) *)

\* k = 1.5, kept as 2k so that the arithmetic stays in the integers
BrKx2 == 3

Protection == 5

\* bounds of the breaker runs: the window (10 s in 40 buckets in the program)
\* is scaled down to BrBuckets buckets of BrInterval time units
BrBuckets == 2

BrInterval == 2

BrMaxTime == 3

BrMaxCalls == 8

BrMaxPending == 2

\* the uniform draw of Proba.TrueOnProba is r = i / BrDraws, i in 0..BrDraws-1
BrDraws == 3

\* googleBreaker.history: accepts is the sum of Sum, total the sum of Count
BrHistory(stat, now) ==
    LET visited == RwReduce(stat, BrInterval, now)
    IN  [accepts |-> SumSeq(visited, "Sum"), total |-> SumSeq(visited, "Count")]

\* the ratio taken over the requests beyond the protection
DropRatioOverUnprotected(accepts, total) ==
    [num |-> Max(0, 2 * (total - Protection) - BrKx2 * accepts),
     den |-> 2 * Max(1, total - Protection)]

\* dropRatio of googleBreaker.accept as the fraction num / den:
\* max(0, (float(total - protection) - k * accepts) / float(total + 1))
DropRatio(accepts, total) ==
    [num |-> Max(0, 2 * (total - Protection) - BrKx2 * accepts),
     den |-> 2 * (total + 1)]

\* Proba.TrueOnProba(proba): r.Float64() < proba, with r = draw / BrDraws
TrueOnProba(draw, proba) == draw * proba.den < proba.num * BrDraws

\* the same without the protection of the first requests
GoogleAcceptUnprotected(accepts, total, draw) ==
    LET dropRatio == [num |-> Max(0, 2 * total - BrKx2 * accepts),
                      den |-> 2 * (total + 1)]
    IN  IF dropRatio.num <= 0 THEN "nil"
        ELSE IF TrueOnProba(draw, dropRatio) THEN "ErrServiceUnavailable"
             ELSE "nil"

\* googleBreaker.accept on history (accepts, total) and a draw
GoogleAccept(accepts, total, draw) ==
    LET dropRatio == DropRatio(accepts, total)
    IN  IF dropRatio.num <= 0 THEN "nil"
        ELSE IF TrueOnProba(draw, dropRatio) THEN "ErrServiceUnavailable"
             ELSE "nil"

\* no doReq call returned
BrNoDo ==
    [kind |-> "none", ran |-> FALSE, fallback |-> FALSE, acceptable |-> FALSE,
     ret |-> [by |-> "none", err |-> "nil"]]

\* what req can do: return nil, return an error, panic
ReqOutcomes == {"nil", "err", "panic"}

\* defaultAcceptable
DefaultAcceptable(err) == err = "nil"

\* what acceptable(err) can answer: defaultAcceptable, or a function of the caller
AcceptableResults(custom, err) == IF custom THEN BOOLEAN ELSE {DefaultAcceptable(err)}

\* doReq on rejection
DoReqRejectedDropsFallback(fallback, err) == [by |-> "doReq", err |-> err]

DoReqRejected(fallback, err) ==
    IF fallback THEN [by |-> "fallback", err |-> err] ELSE [by |-> "doReq", err |-> err]

\* doReq after req: the value added to the window
DoReqMarkIgnoresAcceptable(panicked, acc) == IF panicked THEN 0 ELSE 1

DoReqMark(panicked, acc) == IF panicked THEN 0 ELSE IF acc THEN 1 ELSE 0

BrInit ==
    /\ brNow = 0
    /\ brStat = NewRollingWindow(BrBuckets, 0, FALSE)
    /\ brPending = 0
    /\ brCalls = 0
    /\ brLast = [accepts |-> 0, total |-> 0, draw |-> 0, err |-> "nil"]
    /\ brDo = BrNoDo

BrTick ==
    /\ brNow < BrMaxTime
    /\ brNow' = brNow + 1
    /\ UNCHANGED <<brStat, brPending, brCalls, brLast>>
    /\ brDo' = BrNoDo
    /\ UNCHANGED notBr

\* googleBreaker.allow: accept(), and a googlePromise when admitted
BrAllow ==
    /\ brCalls < BrMaxCalls
    /\ \E draw \in 0..(BrDraws - 1) :
         LET h == BrHistory(brStat, brNow)
             err == GoogleAccept(h.accepts, h.total, draw)
         IN  /\ brLast' = [accepts |-> h.accepts, total |-> h.total,
                           draw |-> draw, err |-> err]
             /\ IF err = "nil"
                THEN /\ brPending < BrMaxPending
                     /\ brPending' = brPending + 1
                ELSE brPending' = brPending
    /\ brCalls' = brCalls + 1
    /\ UNCHANGED <<brStat, brNow>>
    /\ brDo' = BrNoDo
    /\ UNCHANGED notBr

\* googlePromise.Accept: markSuccess, stat.Add(1)
BrPromiseAccept ==
    /\ brPending > 0
    /\ brPending' = brPending - 1
    /\ brStat' = RwAdd(brStat, BrInterval, brNow, 1)
    /\ UNCHANGED <<brNow, brCalls, brLast>>
    /\ brDo' = BrNoDo
    /\ UNCHANGED notBr

\* googlePromise.Reject: markFailure, stat.Add(0)
BrPromiseReject ==
    /\ brPending > 0
    /\ brPending' = brPending - 1
    /\ brStat' = RwAdd(brStat, BrInterval, brNow, 0)
    /\ UNCHANGED <<brNow, brCalls, brLast>>
    /\ brDo' = BrNoDo
    /\ UNCHANGED notBr

\* googleBreaker.doReq up to the call of req: accept(), and on rejection
\* the return of fallback(err) or err
BrDoReq ==
    /\ brCalls < BrMaxCalls
    /\ \E draw \in 0..(BrDraws - 1) :
         LET h == BrHistory(brStat, brNow)
             err == GoogleAccept(h.accepts, h.total, draw)
         IN  /\ brLast' = [accepts |-> h.accepts, total |-> h.total,
                           draw |-> draw, err |-> err]
             /\ IF err = "nil"
                THEN /\ brPending < BrMaxPending
                     /\ brPending' = brPending + 1
                     /\ brDo' = BrNoDo
                ELSE /\ brPending' = brPending
                     /\ \E fallback \in BOOLEAN :
                          brDo' = [kind |-> "rejected", ran |-> FALSE,
                                   fallback |-> fallback, acceptable |-> FALSE,
                                   ret |-> DoReqRejected(fallback, err)]
    /\ brCalls' = brCalls + 1
    /\ UNCHANGED <<brStat, brNow>>
    /\ UNCHANGED notBr

\* googleBreaker.doReq from the return of req: acceptable(err) decides
\* between markSuccess and markFailure; a panic of req is recovered, marked
\* as a failure and raised again
BrDoReqEnd ==
    /\ brPending > 0
    /\ brPending' = brPending - 1
    /\ \E out \in ReqOutcomes, custom \in BOOLEAN :
         \E acc \in AcceptableResults(custom, out) :
            /\ brStat' = RwAdd(brStat, BrInterval, brNow, DoReqMark(out = "panic", acc))
            /\ brDo' = [kind |-> IF out = "panic" THEN "panicked" ELSE "returned",
                        ran |-> TRUE, fallback |-> FALSE,
                        acceptable |-> out # "panic" /\ acc,
                        ret |-> [by |-> IF out = "panic" THEN "panic" ELSE "req",
                                 err |-> out]]
    /\ UNCHANGED <<brNow, brCalls, brLast>>
    /\ UNCHANGED notBr

BrNext ==
    \/ BrTick \/ BrAllow \/ BrPromiseAccept \/ BrPromiseReject
    \/ BrDoReq \/ BrDoReqEnd

\* a whole window (buckets * bucketDuration) passes without any call
BrWindowPasses ==
    /\ brNow < BrMaxTime
    /\ brNow' = brNow + BrBuckets * BrInterval
    /\ UNCHANGED <<brStat, brPending, brCalls, brLast>>
    /\ brDo' = BrNoDo
    /\ UNCHANGED notBr

\* allow, Accept and Reject with idle windows in between
BrRecoveryNext ==
    \/ BrTick \/ BrWindowPasses \/ BrAllow \/ BrPromiseAccept \/ BrPromiseReject

----------------------------------------------------------------------------
(* load: adaptiveShedder and its promise *)

CpuThreshold == 900

\* defaultMinRt, in ms
DefaultMinRt == 1000

\* flyingBeta = 0.9, in per cent
FlyingBeta == 90

\* coolOffDuration, in ms
CoolOffDuration == 1000

\* WithWindow and WithBuckets as given to NewAdaptiveShedder, window in ms
ShWindow == 2000

ShBuckets == 2

\* bounds of the shedder runs; time advances ShStep ms at a time
ShStep == 1000

ShMaxSteps == 2

ShMaxPasses == 1

ShMaxFlying == 4

\* avgFlying is kept in units of 1/ShAvgScale
ShAvgScale == 10

ShBucketDuration == ShWindow \div ShBuckets

\* adaptiveShedder.windows: buckets per second
ShWindows == 1000 \div ShBucketDuration

ShTimes == {ShStep * i : i \in 1..ShMaxSteps}

RECURSIVE MaxSum(_, _)
\* adaptiveShedder.maxPass: the largest Sum over the visited buckets, at least 1
MaxSum(visited, result) ==
    IF visited = <<>> THEN result
    ELSE MaxSum(Tail(visited), Max(result, Head(visited).Sum))

\* the same truncated instead of rounded
RoundDivTruncated(sum, count) == sum \div count

\* math.Round(b.Sum / float64(b.Count)) for Sum >= 0, Count > 0
RoundDiv(sum, count) == (2 * sum + count) \div (2 * count)

RECURSIVE MinAvg(_, _)
\* adaptiveShedder.minRt: the least rounded average over the buckets with data
MinAvg(visited, result) ==
    IF visited = <<>> THEN result
    ELSE LET b == Head(visited)
         IN  IF b.Count <= 0 THEN MinAvg(Tail(visited), result)
             ELSE MinAvg(Tail(visited), Min(result, RoundDiv(b.Sum, b.Count)))

ShMaxPass(passCounter, now) == MaxSum(RwReduce(passCounter, ShBucketDuration, now), 1)

ShMinRt(rtCounter, now) == MinAvg(RwReduce(rtCounter, ShBucketDuration, now), DefaultMinRt)

\* adaptiveShedder.maxFlight: int64(math.Max(1, float64(maxPass*windows) * (minRt/1e3)))
ShMaxFlight(passCounter, rtCounter, now) ==
    Max(1, (ShMaxPass(passCounter, now) * ShWindows * ShMinRt(rtCounter, now)) \div 1000)

\* adaptiveShedder.highThru: int64(avgFlying) > maxFlight && flying > maxFlight
ShHighThru(avgFlying, flying, maxFlight) ==
    /\ avgFlying \div ShAvgScale > maxFlight
    /\ flying > maxFlight

\* systemOverloadChecker: stat.CpuUsage() >= cpuThreshold
ShSystemOverloaded(cpu) == cpu >= CpuThreshold

\* stillHot that is still hot when exactly coolOffDuration has passed
ShStillHotAtCoolOff(droppedRecently, overloadTime, now) ==
    /\ droppedRecently
    /\ overloadTime # 0
    /\ now - overloadTime <= CoolOffDuration

\* adaptiveShedder.stillHot: its result
ShStillHot(droppedRecently, overloadTime, now) ==
    /\ droppedRecently
    /\ overloadTime # 0
    /\ now - overloadTime < CoolOffDuration

\* adaptiveShedder.stillHot: droppedRecently after the call
ShStillHotClears(droppedRecently, overloadTime, now) ==
    IF droppedRecently /\ overloadTime # 0 /\ ~(now - overloadTime < CoolOffDuration)
    THEN FALSE
    ELSE droppedRecently

\* adaptiveShedder.shouldDrop, on the state as read by one Allow
ShShouldDrop(cpu, droppedRecently, overloadTime, now, avgFlying, flying, maxFlight) ==
    /\ \/ ShSystemOverloaded(cpu)
       \/ ShStillHot(droppedRecently, overloadTime, now)
    /\ ShHighThru(avgFlying, flying, maxFlight)

\* addFlying that forgets the release of a request
AddFlyingKeepsReleased(flying, delta) == IF delta < 0 THEN flying ELSE flying + delta

\* adaptiveShedder.addFlying: atomic.AddInt64(&as.flying, delta)
AddFlying(flying, delta) == flying + delta

\* adaptiveShedder.Allow: addFlying(1) only when the request is admitted
FlyingAfterAllow(flying, drop) == IF drop THEN flying ELSE AddFlying(flying, 1)

\* adaptiveShedder.addFlying(delta) with delta < 0: the moving average
ShAvgAfter(avgFlying, flying) ==
    (avgFlying * FlyingBeta + flying * ShAvgScale * (100 - FlyingBeta)) \div 100

ShTotalPromises(promises) == SumOver(promises, ShTimes)

ShInit ==
    /\ shFlying = 0
    /\ shAvgFlying = 0
    /\ shOverloadTime = 0
    /\ shDroppedRecently = FALSE
    /\ shNow = ShStep
    /\ shPassCounter = NewRollingWindow(ShBuckets, ShStep, TRUE)
    /\ shRtCounter = NewRollingWindow(ShBuckets, ShStep, TRUE)
    /\ shCpu = CpuThreshold - 1
    /\ shPromises = [t \in ShTimes |-> 0]
    /\ shPasses = 0
    /\ shRet = "none"
    /\ shCoolSince = ShStep

ShTick ==
    /\ shNow < ShStep * ShMaxSteps
    /\ shNow' = shNow + ShStep
    /\ shRet' = "none"
    /\ UNCHANGED <<shFlying, shAvgFlying, shOverloadTime, shDroppedRecently,
                   shPassCounter, shRtCounter, shCpu, shPromises, shPasses, shCoolSince>>
    /\ UNCHANGED notSh

\* the CPU probe publishes a new reading
ShCpuReading ==
    /\ \E c \in {CpuThreshold - 1, CpuThreshold} :
         /\ c # shCpu
         /\ shCpu' = c
         /\ shCoolSince' = IF ShSystemOverloaded(c) THEN -1 ELSE shNow
    /\ shRet' = "none"
    /\ UNCHANGED <<shFlying, shAvgFlying, shOverloadTime, shDroppedRecently,
                   shPassCounter, shRtCounter, shNow, shPromises, shPasses>>
    /\ UNCHANGED notSh

\* adaptiveShedder.Allow
ShAllow ==
    LET over == ShSystemOverloaded(shCpu)
        \* stillHot runs only when systemOverloaded returned false
        dropped == IF over THEN shDroppedRecently
                   ELSE ShStillHotClears(shDroppedRecently, shOverloadTime, shNow)
        maxFlight == ShMaxFlight(shPassCounter, shRtCounter, shNow)
        drop == ShShouldDrop(shCpu, shDroppedRecently, shOverloadTime, shNow,
                             shAvgFlying, shFlying, maxFlight)
    IN  /\ drop \/ shFlying < ShMaxFlying
        /\ shOverloadTime' = IF over THEN shNow ELSE shOverloadTime
        /\ shDroppedRecently' = IF drop THEN TRUE ELSE dropped
        /\ shFlying' = FlyingAfterAllow(shFlying, drop)
        /\ shPromises' = IF drop THEN shPromises
                         ELSE [shPromises EXCEPT ![shNow] = @ + 1]
        /\ shRet' = IF drop THEN "ErrServiceOverloaded" ELSE "nil"
        /\ UNCHANGED <<shAvgFlying, shPassCounter, shRtCounter, shNow, shCpu, shPasses,
                       shCoolSince>>
        /\ UNCHANGED notSh

\* promise.Fail: addFlying(-1)
ShFail ==
    /\ \E start \in ShTimes :
         /\ shPromises[start] > 0
         /\ shPromises' = [shPromises EXCEPT ![start] = @ - 1]
    /\ shFlying' = AddFlying(shFlying, -1)
    /\ shAvgFlying' = ShAvgAfter(shAvgFlying, shFlying')
    /\ shRet' = "none"
    /\ UNCHANGED <<shOverloadTime, shDroppedRecently, shPassCounter, shRtCounter,
                   shNow, shCpu, shPasses, shCoolSince>>
    /\ UNCHANGED notSh

\* promise.Pass: addFlying(-1), rtCounter.Add(ceil(rt)), passCounter.Add(1);
\* the clock is in whole ms, so rt is already whole
ShPass ==
    /\ shPasses < ShMaxPasses
    /\ \E start \in ShTimes :
         /\ shPromises[start] > 0
         /\ shPromises' = [shPromises EXCEPT ![start] = @ - 1]
         /\ shRtCounter' = RwAdd(shRtCounter, ShBucketDuration, shNow, shNow - start)
    /\ shFlying' = AddFlying(shFlying, -1)
    /\ shAvgFlying' = ShAvgAfter(shAvgFlying, shFlying')
    /\ shPassCounter' = RwAdd(shPassCounter, ShBucketDuration, shNow, 1)
    /\ shPasses' = shPasses + 1
    /\ shRet' = "none"
    /\ UNCHANGED <<shOverloadTime, shDroppedRecently, shNow, shCpu, shCoolSince>>
    /\ UNCHANGED notSh

ShNext == ShTick \/ ShCpuReading \/ ShAllow \/ ShFail \/ ShPass

----------------------------------------------------------------------------
(* zrpc/internal/balancer/p2c: p2cPicker *)

\* decayTime: ten seconds, in ms
DecayTime == 10000

\* forcePick: one second, in ms
ForcePick == 1000

InitSuccess == 1000

ThrottleSuccess == InitSuccess \div 2

\* penalty: math.MaxInt32
Penalty == 2147483647

PickTimes == 3

\* logInterval: one minute, in ms
LogInterval == 60000

\* the clock advances in steps of this many ms
P2cStep == 500

\* the clock ticks while it is below this, then only idles
P2cHorizon == P2cStep

\* picks whose Done has not finished, at most
P2cMaxOutstanding == 2

\* picks made over a run, at most
P2cMaxPicks == P2cMaxOutstanding + 1

\* math.Sqrt truncated by the int64 conversion
RECURSIVE ISqrt(_)
ISqrt(x) ==
    IF x < 2 THEN x
    ELSE LET s == 2 * ISqrt(x \div 4)
         IN  IF (s + 1) * (s + 1) > x THEN s ELSE s + 1

\* math.Exp(-td / decayTime) in thousandths: 0.990 (= exp(-0.01)) to the power
\* of the hundredths of a decay period in td
RECURSIVE ExpPow(_)
ExpPow(n) ==
    IF n = 0 THEN 1000
    ELSE IF n % 2 = 0 THEN (ExpPow(n \div 2) * ExpPow(n \div 2)) \div 1000
    ELSE (ExpPow(n - 1) * 990) \div 1000

ExpDecay(td) == ExpPow((td * 100) \div DecayTime)

\* uint64(float64(old)*w + float64(sample)*(1-w)), w in thousandths
Ewma(old, sample, w) == (old * w + sample * (1000 - w)) \div 1000

\* subConn as Build creates it
NewSubConn == [lag |-> 0, inflight |-> 0, success |-> InitSuccess,
               requests |-> 0, last |-> 0, pick |-> 0]

\* subConn.healthy
SubConnHealthy(c) == c.success > ThrottleSuccess

\* subConn.load
SubConnLoad(c) ==
    LET lag == ISqrt(c.lag + 1)
        load == lag * (c.inflight + 1)
    IN  IF load = 0 THEN Penalty ELSE load

\* the index pairs one sampling attempt can draw: a = Intn(n), b = Intn(n-1),
\* b++ when b >= a (1-based here)
P2cPairs(n) ==
    {<<a + 1, (IF b >= a THEN b + 1 ELSE b) + 1>> : a \in 0..(n - 1), b \in 0..(n - 2)}

\* the pairs (node1, node2) the sampling loop can end with, from attempt i on:
\* it stops at a pair of healthy conns, and after pickTimes attempts it keeps
\* the last pair drawn
RECURSIVE P2cSample(_, _)
P2cSample(conns, i) ==
    LET pairs == P2cPairs(Len(conns))
        good == {p \in pairs : SubConnHealthy(conns[p[1]]) /\ SubConnHealthy(conns[p[2]])}
    IN  IF i = PickTimes - 1 THEN pairs
        ELSE good \cup (IF good # pairs THEN P2cSample(conns, i + 1) ELSE {})

\* the switch of Pick; 0 stands for the nil second node.  Build returns an
\* error picker for an empty set, so a p2cPicker has at least one conn.
P2cNodes(conns) ==
    CASE Len(conns) = 1 -> {<<1, 0>>}
      [] Len(conns) = 2 -> {<<1, 2>>}
      [] OTHER -> P2cSample(conns, 0)

\* choose without the forced pick: always the lower load
P2cChooseNeverForced(conns, c1, c2, start) ==
    IF c2 = 0 THEN c1
    ELSE IF SubConnLoad(conns[c1]) > SubConnLoad(conns[c2]) THEN c2 ELSE c1

\* p2cPicker.choose: the index returned; its pick stamp is set to start
P2cChoose(conns, c1, c2, start) ==
    IF c2 = 0 THEN c1
    ELSE LET swap == SubConnLoad(conns[c1]) > SubConnLoad(conns[c2])
             lo == IF swap THEN c2 ELSE c1
             hi == IF swap THEN c1 ELSE c2
         IN  IF start - conns[hi].pick > ForcePick THEN hi ELSE lo

\* a Done that leaves inflight as it was
DoneInflightKept(inflight) == inflight

\* buildDoneFunc: atomic.AddInt64(&c.inflight, -1)
DoneInflight(inflight) == inflight - 1

\* how many picks of conn c are in the bag
P2cCount(bag, c) ==
    SumOver([e \in BagToSet(bag) |-> IF e.conn = c THEN CopiesIn(e, bag) ELSE 0],
            BagToSet(bag))

\* p2cPickerBuilder.Build, for one, two and more than two ready sub-conns
P2cInit ==
    /\ \E n \in {1, 2, 3} : p2cConns = [i \in 1..n |-> NewSubConn]
    /\ p2cNow = 0
    /\ p2cStamp = 0
    /\ p2cPending = EmptyBag
    /\ p2cRunning = EmptyBag
    /\ p2cDones = 0

P2cTick ==
    /\ p2cNow < P2cHorizon
    /\ p2cNow' = p2cNow + P2cStep
    /\ UNCHANGED <<p2cConns, p2cStamp, p2cPending, p2cRunning, p2cDones>>
    /\ UNCHANGED notP2c

\* the picker sits idle for a log interval
P2cIdle ==
    /\ p2cNow < LogInterval
    /\ p2cNow' = p2cNow + LogInterval
    /\ UNCHANGED <<p2cConns, p2cStamp, p2cPending, p2cRunning, p2cDones>>
    /\ UNCHANGED notP2c

\* p2cPicker.Pick, under p.lock
P2cPick ==
    /\ BagCardinality(p2cPending) + BagCardinality(p2cRunning) < P2cMaxOutstanding
    /\ p2cDones + BagCardinality(p2cPending) < P2cMaxPicks
    /\ \E nodes \in P2cNodes(p2cConns) :
         LET chosen == P2cChoose(p2cConns, nodes[1], nodes[2], p2cNow)
         IN  /\ p2cConns' = [p2cConns EXCEPT ![chosen] =
                                [@ EXCEPT !.pick = p2cNow,
                                          !.inflight = @ + 1,
                                          !.requests = @ + 1]]
             /\ p2cPending' = p2cPending (+) SetToBag({[conn |-> chosen, start |-> p2cNow]})
    /\ UNCHANGED <<p2cNow, p2cStamp, p2cRunning, p2cDones>>
    /\ UNCHANGED notP2c

\* Done, first half: inflight - 1, swap last, compute w and lag, load c.lag
P2cDoneBegin ==
    /\ \E pick \in BagToSet(p2cPending), failed \in BOOLEAN :
         LET c == pick.conn
             td == Max(0, p2cNow - p2cConns[c].last)
             olag == p2cConns[c].lag
         IN  /\ p2cConns' = [p2cConns EXCEPT ![c] =
                                [@ EXCEPT !.inflight = DoneInflight(@),
                                          !.last = p2cNow]]
             /\ p2cPending' = p2cPending (-) SetToBag({pick})
             /\ p2cRunning' = p2cRunning (+) SetToBag({
                                [conn |-> c, now |-> p2cNow,
                                 lag |-> Max(0, p2cNow - pick.start),
                                 olag |-> olag,
                                 w |-> IF olag = 0 THEN 0 ELSE ExpDecay(td),
                                 success |-> IF failed THEN 0 ELSE InitSuccess]})
    /\ p2cDones' = p2cDones + 1
    /\ UNCHANGED <<p2cNow, p2cStamp>>
    /\ UNCHANGED notP2c

\* Done, second half: store lag, load and store success, stamp and logStats
P2cDoneEnd ==
    /\ \E d \in BagToSet(p2cRunning) :
         LET stored == [p2cConns EXCEPT ![d.conn] =
                          [@ EXCEPT !.lag = Ewma(d.olag, d.lag, d.w),
                                    !.success = Ewma(@, d.success, d.w)]]
             logs == d.now - p2cStamp >= LogInterval
         IN  /\ p2cConns' = IF logs
                            THEN [c \in DOMAIN stored |-> [stored[c] EXCEPT !.requests = 0]]
                            ELSE stored
             /\ p2cStamp' = IF logs THEN d.now ELSE p2cStamp
             /\ p2cRunning' = p2cRunning (-) SetToBag({d})
    /\ UNCHANGED <<p2cNow, p2cPending, p2cDones>>
    /\ UNCHANGED notP2c

P2cNext == P2cTick \/ P2cIdle \/ P2cPick \/ P2cDoneBegin \/ P2cDoneEnd

----------------------------------------------------------------------------
(* core/collection/timingwheel.go: the run loop handles one message a step *)

TwNumSlots == 2

\* the tick interval, in ms
TwInterval == 2

\* the longest delay handed to SetTimer and MoveTimer, in ms
TwMaxDelay == 7

TwKeySeq == <<1, 2>>

TwKeys == {TwKeySeq[i] : i \in 1..Len(TwKeySeq)}

\* timingEntry objects alive at a time, at most: one more than there are keys
TwMaxEntries == Cardinality(TwKeys) + 1

\* a delay below one interval, the whole intervals, and the longest delay
TwDelays == {TwInterval - 1, TwMaxDelay} \cup
            {d \in 1..TwMaxDelay : d % TwInterval = 0}

TwPositions == 0..(TwNumSlots - 1)

TwIds == 1..TwMaxEntries

\* no timingEntry
TwNoEntry == [key |-> 0, circle |-> 0, diff |-> 0, removed |-> FALSE]

\* timers.Get finds nothing
TwNoTimer == [pos |-> 0, item |-> 0]

TwNoPlan == [kind |-> "none", left |-> 0, moved |-> FALSE]

\* pending, but re-set or fired at once by a short move: no promise followed
TwDirty == [kind |-> "dirty", left |-> 0, moved |-> FALSE]

\* TimingWheel.getPositionAndCircle; steps >= 1 at every call, so the
\* truncating division of the source and \div agree
GetPositionAndCircle(tickedPos, d) ==
    LET steps == d \div TwInterval
    IN  [pos |-> (tickedPos + steps) % TwNumSlots,
         circle |-> (steps - 1) \div TwNumSlots]

\* the smallest id not in use
TwFreeId(heap) == CHOOSE id \in TwIds :
    /\ heap[id] = TwNoEntry
    /\ \A other \in TwIds : heap[other] = TwNoEntry => id <= other

\* the ids linked in the slots from position p on, in list order
RECURSIVE TwLinked(_, _)
TwLinked(slots, p) ==
    IF p = TwNumSlots THEN <<>> ELSE slots[p] \o TwLinked(slots, p + 1)

\* the ids the key index holds of entries that are linked in no slot
TwUnlinked(w) ==
    LET linked == TwLinked(w.slots, 0)
        held(k) == /\ w.timers[k].item # 0
                   /\ \A i \in 1..Len(linked) : linked[i] # w.timers[k].item
    IN  SelectSeq([i \in 1..Len(TwKeySeq) |-> IF held(TwKeySeq[i])
                                                THEN w.timers[TwKeySeq[i]].item ELSE 0],
                  LAMBDA id : id # 0)

\* objects no slot and no positionEntry refers to are collected; the objects
\* left are numbered in the order of the slots
TwCollect(w) ==
    LET order == TwLinked(w.slots, 0) \o TwUnlinked(w)
        name(id) == CHOOSE i \in 1..Len(order) : order[i] = id
    IN  [slots |-> [p \in TwPositions |->
                       [i \in 1..Len(w.slots[p]) |-> name(w.slots[p][i])]],
         heap |-> [i \in TwIds |->
                       IF i <= Len(order) THEN w.heap[order[i]] ELSE TwNoEntry],
         timers |-> [k \in TwKeys |->
                       IF w.timers[k].item = 0 THEN w.timers[k]
                       ELSE [w.timers[k] EXCEPT !.item = name(@)]]]

\* TimingWheel.setTimerPosition
SetTimerPosition(timers, pos, key, id) ==
    [timers EXCEPT ![key] = [pos |-> pos, item |-> id]]

\* moveTask that leaves the old entry as it is when it links a new one
MoveIndexedKeepsOld(w, tickedPos, key, delay) ==
    LET timer == w.timers[key]
        pc == GetPositionAndCircle(tickedPos, delay)
        id == TwFreeId(w.heap)
    IN  IF pc.pos >= timer.pos
        THEN [w EXCEPT !.heap[timer.item].circle = pc.circle,
                       !.heap[timer.item].diff = pc.pos - timer.pos]
        ELSE IF pc.circle > 0
        THEN [w EXCEPT !.heap[timer.item].circle = pc.circle - 1,
                       !.heap[timer.item].diff = TwNumSlots + pc.pos - timer.pos]
        ELSE [slots |-> [w.slots EXCEPT ![pc.pos] = Append(@, id)],
              heap |-> [w.heap EXCEPT ![id] = [key |-> key, circle |-> 0,
                                      diff |-> 0, removed |-> FALSE]],
              timers |-> SetTimerPosition(w.timers, pc.pos, key, id)]

\* TimingWheel.moveTask for a delay of at least one interval, on an indexed key
MoveIndexed(w, tickedPos, key, delay) ==
    LET timer == w.timers[key]
        pc == GetPositionAndCircle(tickedPos, delay)
        id == TwFreeId(w.heap)
    IN  IF pc.pos >= timer.pos
        THEN [w EXCEPT !.heap[timer.item].circle = pc.circle,
                       !.heap[timer.item].diff = pc.pos - timer.pos]
        ELSE IF pc.circle > 0
        THEN [w EXCEPT !.heap[timer.item].circle = pc.circle - 1,
                       !.heap[timer.item].diff = TwNumSlots + pc.pos - timer.pos]
        ELSE [slots |-> [w.slots EXCEPT ![pc.pos] = Append(@, id)],
              heap |-> [w.heap EXCEPT ![timer.item].removed = TRUE,
                                      ![id] = [key |-> key, circle |-> 0,
                                               diff |-> 0, removed |-> FALSE]],
              timers |-> SetTimerPosition(w.timers, pc.pos, key, id)]

\* TimingWheel.moveTask: the wheel after it, and the keys it executes at once
MoveTask(w, tickedPos, key, delay) ==
    IF w.timers[key].item = 0 THEN [w |-> w, ran |-> {}]
    ELSE IF delay < TwInterval THEN [w |-> w, ran |-> {key}]
    ELSE [w |-> MoveIndexed(w, tickedPos, key, delay), ran |-> {}]

\* TimingWheel.setTask
SetTask(w, tickedPos, key, d) ==
    LET delay == IF d < TwInterval THEN TwInterval ELSE d
        pc == GetPositionAndCircle(tickedPos, delay)
        id == TwFreeId(w.heap)
    IN  IF w.timers[key].item # 0
        THEN MoveTask(w, tickedPos, key, delay)
        ELSE [w |-> [slots |-> [w.slots EXCEPT ![pc.pos] = Append(@, id)],
                     heap |-> [w.heap EXCEPT ![id] = [key |-> key, circle |-> pc.circle,
                                                      diff |-> 0, removed |-> FALSE]],
                     timers |-> SetTimerPosition(w.timers, pc.pos, key, id)],
              ran |-> {}]

\* removeTask that only forgets the key
RemoveMarkSkipped(entry) == entry

\* removeTask: timer.item.removed = true
RemoveMark(entry) == [entry EXCEPT !.removed = TRUE]

\* TimingWheel.removeTask
RemoveTask(w, key) ==
    IF w.timers[key].item = 0 THEN w
    ELSE [w EXCEPT !.heap[w.timers[key].item] = RemoveMark(@),
                   !.timers[key] = TwNoTimer]

\* TimingWheel.scanAndRunTasks over the entries ids of the slot at tickedPos;
\* st holds the wheel, the tasks collected so far and the keys of the removed
\* entries dropped so far
RECURSIVE ScanAndRunTasks(_, _, _)
ScanAndRunTasks(st, tickedPos, ids) ==
    IF ids = <<>> THEN st
    ELSE
      LET id == Head(ids)
          task == st.w.heap[id]
          pos == (tickedPos + task.diff) % TwNumSlots
          next ==
            IF task.removed THEN [st EXCEPT !.skipped = @ \cup {task.key}]
            ELSE IF task.circle > 0
            THEN [st EXCEPT !.w.heap[id].circle = @ - 1,
                            !.w.slots[tickedPos] = Append(@, id)]
            ELSE IF task.diff > 0
            THEN [st EXCEPT !.w.slots[pos] = Append(@, id),
                            !.w.timers = SetTimerPosition(@, pos, task.key, id),
                            !.w.heap[id].diff = 0]
            ELSE [st EXCEPT !.ran = @ \cup {task.key},
                            !.w.timers[task.key] = TwNoTimer]
      IN  ScanAndRunTasks(next, tickedPos, Tail(ids))

\* TimingWheel.drainAll: every slot is emptied; the key index is left alone
DrainAll(w) == [w EXCEPT !.slots = [p \in TwPositions |-> <<>>]]

TwWheel == [slots |-> twSlots, heap |-> twHeap, timers |-> twTimers]

\* the loop leaves the wheel as w
TwBecomes(w) ==
    LET c == TwCollect(w)
    IN  /\ twSlots' = c.slots
        /\ twHeap' = c.heap
        /\ twTimers' = c.timers

\* the next tick is the one the promise names
TwFalls(plan) == plan.kind \in {"set", "moved"} /\ plan.left = 1

TwPending(plan) == plan.kind \in {"set", "moved", "dirty"}

\* the select of run, reached with the channel of kind ready ("tick": the ticker
\* holds a tick, "call": a caller): a caller sends only while stopChannel is open;
\* once it is closed the callers' selects take the stop case, and the loop's
\* select, with the stop case and a tick both ready, takes either
RunReceives(stop, kind) ==
    IF kind = "tick" THEN stop # "returned" ELSE stop = "open"

\* NewTimingWheelWithTicker
TwInit ==
    /\ twSlots = [p \in TwPositions |-> <<>>]
    /\ twHeap = [id \in TwIds |-> TwNoEntry]
    /\ twTimers = [k \in TwKeys |-> TwNoTimer]
    /\ twTickedPos = TwNumSlots - 1
    /\ twRan = {}
    /\ twSkipped = {}
    /\ twPlan = [k \in TwKeys |-> TwNoPlan]
    /\ twStop = "open"
    /\ twErr = "none"
    /\ twFired = [k \in TwKeys |-> FALSE]

\* the loop receives from setChannel
TwSetTimer ==
    /\ RunReceives(twStop, "call")
    /\ \E id \in TwIds : twHeap[id] = TwNoEntry
    /\ \E key \in TwKeys, d \in TwDelays :
         LET r == SetTask(TwWheel, twTickedPos, key, d)
         IN  /\ TwBecomes(r.w)
             /\ twRan' = r.ran
             /\ twFired' = [twFired EXCEPT ![key] = key \in r.ran]
             /\ twPlan' = [twPlan EXCEPT ![key] =
                    IF TwPending(@) THEN TwDirty
                    ELSE [kind |-> "set", left |-> Max(1, d \div TwInterval),
                          moved |-> FALSE]]
    /\ twSkipped' = {}
    /\ UNCHANGED twTickedPos
    /\ twErr' = "none"
    /\ UNCHANGED twStop
    /\ UNCHANGED notTw

\* the loop receives from moveChannel
TwMoveTimer ==
    /\ RunReceives(twStop, "call")
    /\ \E id \in TwIds : twHeap[id] = TwNoEntry
    /\ \E key \in TwKeys, d \in TwDelays :
         LET r == MoveTask(TwWheel, twTickedPos, key, d)
         IN  /\ TwBecomes(r.w)
             /\ twRan' = r.ran
             /\ twFired' = [k \in TwKeys |-> twFired[k] \/ k \in r.ran]
             /\ twPlan' = [twPlan EXCEPT ![key] =
                    IF @.kind \in {"set", "moved"}
                    THEN IF d >= TwInterval
                         THEN [kind |-> "moved", left |-> d \div TwInterval,
                               moved |-> TRUE]
                         ELSE TwDirty
                    ELSE @]
    /\ twSkipped' = {}
    /\ UNCHANGED twTickedPos
    /\ twErr' = "none"
    /\ UNCHANGED twStop
    /\ UNCHANGED notTw

\* the loop receives from removeChannel
TwRemoveTimer ==
    /\ RunReceives(twStop, "call")
    /\ \E key \in TwKeys :
         /\ TwBecomes(RemoveTask(TwWheel, key))
         /\ twPlan' = [twPlan EXCEPT ![key] =
                [kind |-> "cancelled", left |-> 0, moved |-> @.moved]]
    /\ twRan' = {}
    /\ twSkipped' = {}
    /\ UNCHANGED twTickedPos
    /\ twErr' = "none"
    /\ UNCHANGED twStop
    /\ UNCHANGED twFired
    /\ UNCHANGED notTw

\* the loop receives from the ticker: onTick
TwTick ==
    LET pos == (twTickedPos + 1) % TwNumSlots
        start == [w |-> [TwWheel EXCEPT !.slots[pos] = <<>>], ran |-> {}, skipped |-> {}]
        r == ScanAndRunTasks(start, pos, twSlots[pos])
        falls(k) == TwFalls(twPlan[k])
    IN  /\ RunReceives(twStop, "tick")
        /\ twTickedPos' = pos
        /\ twErr' = "none"
    /\ UNCHANGED twStop
        /\ TwBecomes(r.w)
        /\ twRan' = r.ran
        /\ twFired' = [k \in TwKeys |-> twFired[k] \/ k \in r.ran]
        /\ twPlan' = [k \in TwKeys |->
               IF falls(k) THEN TwNoPlan
               ELSE IF twPlan[k].kind \in {"set", "moved"}
               THEN [twPlan[k] EXCEPT !.left = @ - 1]
               ELSE twPlan[k]]
        /\ twSkipped' = r.skipped
        /\ UNCHANGED notTw

\* the loop receives from drainChannel
TwDrain ==
    /\ RunReceives(twStop, "call")
    /\ TwBecomes(DrainAll(TwWheel))
    /\ twPlan' = [k \in TwKeys |->
           IF twPlan[k].kind = "cancelled" THEN twPlan[k] ELSE TwNoPlan]
    /\ twRan' = {}
    /\ twSkipped' = {}
    /\ UNCHANGED twTickedPos
    /\ twErr' = "none"
    /\ UNCHANGED twStop
    /\ UNCHANGED twFired
    /\ UNCHANGED notTw

TwNext == TwSetTimer \/ TwMoveTimer \/ TwRemoveTimer \/ TwTick \/ TwDrain

\* TimingWheel.Stop: close(stopChannel)
TwStop ==
    /\ twStop = "open"
    /\ twStop' = "closed"
    /\ twRan' = {}
    /\ twSkipped' = {}
    /\ twErr' = "none"
    /\ UNCHANGED <<twSlots, twHeap, twTimers, twTickedPos, twPlan>>
    /\ UNCHANGED twFired
    /\ UNCHANGED notTw

\* the select of run takes the stop case: ticker.Stop, return
TwRunReturn ==
    /\ twStop = "closed"
    /\ twStop' = "returned"
    /\ twRan' = {}
    /\ twSkipped' = {}
    /\ twErr' = "none"
    /\ UNCHANGED <<twSlots, twHeap, twTimers, twTickedPos, twPlan>>
    /\ UNCHANGED twFired
    /\ UNCHANGED notTw

\* SetTimer, MoveTimer, RemoveTimer or Drain called once Stop has returned: the
\* select of the call takes the stop case
TwCallClosed ==
    /\ ~RunReceives(twStop, "call")
    /\ twErr' = "ErrClosed"
    /\ twRan' = {}
    /\ twSkipped' = {}
    /\ UNCHANGED <<twSlots, twHeap, twTimers, twTickedPos, twPlan, twStop>>
    /\ UNCHANGED twFired
    /\ UNCHANGED notTw

\* a wheel that is set, ticked and stopped
TwStopNext == TwSetTimer \/ TwTick \/ TwStop \/ TwRunReturn \/ TwCallClosed

----------------------------------------------------------------------------
(* core/discov/internal/registry.go: one cluster, one prefix.  The client  *)
(* connects and every Get succeeds in the end, so load is modelled by its   *)
(* successful Get.                                                          *)

\* keys under the prefix: 1..RegMaxKey
RegMaxKey == 2

\* values: 1..RegMaxVal
RegMaxVal == 2

\* the coordinator stops changing at this revision
RegMaxRev == 3

\* failures of the watch stream
RegMaxRestarts == 1

RegKeys == 1..RegMaxKey

RegVals == 1..RegMaxVal

\* the listeners that call Monitor, each once
RegListenerSet == {1, 2}

\* the coordinator starts with key 1 = 1, written at revision 1
RegInitialKv == [k \in RegKeys |-> IF k = 1 THEN 1 ELSE 0]

RegInitialLog == <<[type |-> "put", key |-> 1, val |-> 1, prev |-> 0]>>

\* c.values[key] missing
RegNoValues == [ok |-> FALSE, m |-> [k \in RegKeys |-> 0]]

RegNoResp == [kvs |-> [k \in RegKeys |-> 0], rev |-> 0]

RegNoQueue == [add |-> {}, remove |-> {}, listeners |-> <<>>]

\* no callback made by handleWatchEvents
RegNoCallback == [kind |-> "none", key |-> 0, val |-> 0, prev |-> 0, ls |-> {}]

RegNoWatch == [on |-> FALSE, rev |-> 0, events |-> <<>>, listeners |-> <<>>]

\* the listeners of a snapshot, as a set
RegRange(seq) == {seq[i] : i \in 1..Len(seq)}

\* cluster.getCurrent
GetCurrent(values) == {k \in RegKeys : values.ok /\ values.m[k] # 0}

\* l.OnAdd(kv) for every kv of keys, on every listener of ls
RegOnAdd(adds, ls, keys) ==
    [l \in RegListenerSet |->
        [k \in RegKeys |-> IF l \in ls /\ k \in keys THEN adds[l][k] + 1 ELSE adds[l][k]]]

\* the revision of the event the watcher w handles next
EventRev(w) == w.rev - Len(w.events) + 1

\* the listeners ls apply OnAdd of the keys to the key sets they keep
ViewOnAdd(view, ls, keys) ==
    [l \in RegListenerSet |-> IF l \in ls THEN view[l] \cup keys ELSE view[l]]

\* the listeners ls apply OnDelete of key
ViewOnDelete(view, ls, key) ==
    [l \in RegListenerSet |-> IF l \in ls THEN view[l] \ {key} ELSE view[l]]

\* cluster.handleChanges, the part under c.lock: the new values and the
\* callbacks owed to the listeners copied under the lock
HandleChanges(values, listeners, kvs) ==
    LET present == {k \in RegKeys : kvs[k] # 0}
        old == {k \in RegKeys : values.m[k] # 0}
    IN  IF ~values.ok
        THEN [values |-> [ok |-> TRUE, m |-> kvs],
              queue |-> [add |-> {[key |-> k, val |-> kvs[k]] : k \in present},
                         remove |-> {},
                         listeners |-> listeners]]
        ELSE [values |-> [ok |-> TRUE, m |-> kvs],
              queue |-> [add |-> {[key |-> k, val |-> kvs[k]] :
                                    k \in {j \in present : values.m[j] # kvs[j]}},
                         remove |-> {[key |-> k, val |-> values.m[k]] :
                                    k \in {j \in old : values.m[j] # kvs[j]}},
                         listeners |-> listeners]]

\* cluster.handleWatchEvents, one event: the values after it
ApplyEvent(values, ev) ==
    IF ev.type = "put"
    THEN [ok |-> TRUE, m |-> [values.m EXCEPT ![ev.key] = ev.val]]
    ELSE IF values.ok THEN [values EXCEPT !.m[ev.key] = 0] ELSE values

\* the listeners of callers will call Monitor
RegInitFor(callers) ==
    /\ regKv = RegInitialKv
    /\ regRev = Len(RegInitialLog)
    /\ regLog = RegInitialLog
    /\ regExists = FALSE
    /\ regValues = RegNoValues
    /\ regListeners = <<>>
    /\ regPc = [l \in RegListenerSet |-> IF l \in callers THEN "idle" ELSE "absent"]
    /\ regResp = [l \in RegListenerSet |-> RegNoResp]
    /\ regQueue = [l \in RegListenerSet |-> RegNoQueue]
    /\ regWatch = [l \in RegListenerSet |-> RegNoWatch]
    /\ regAdds = [l \in RegListenerSet |-> [k \in RegKeys |-> 0]]
    /\ regWatched = [l \in RegListenerSet |-> FALSE]
    /\ regLast = RegNoCallback
    /\ regView = [l \in RegListenerSet |-> {}]
    /\ regHigh = 0
    /\ regRestarts = 0

RegInit == RegInitFor(RegListenerSet)

\* the coordinator takes a Put
RegPut ==
    /\ regRev < RegMaxRev
    /\ \E k \in RegKeys, v \in RegVals :
         /\ regKv' = [regKv EXCEPT ![k] = v]
         /\ regLog' = Append(regLog, [type |-> "put", key |-> k, val |-> v, prev |-> 0])
    /\ regRev' = regRev + 1
    /\ UNCHANGED <<regExists, regValues, regListeners, regPc, regResp, regQueue,
                   regWatch, regAdds, regWatched>>
    /\ regLast' = RegNoCallback
    /\ UNCHANGED regView
    /\ UNCHANGED <<regHigh, regRestarts>>
    /\ UNCHANGED notReg

\* the coordinator takes a Delete of a key it holds.  The watch is opened
\* without WithPrevKV, so the Kv of the event is what the coordinator puts
\* there for a deleted key: nothing, or the value it held
RegDelete ==
    /\ regRev < RegMaxRev
    /\ \E k \in RegKeys :
         /\ regKv[k] # 0
         /\ regKv' = [regKv EXCEPT ![k] = 0]
         /\ \E payload \in {0, regKv[k]} :
              regLog' = Append(regLog, [type |-> "delete", key |-> k, val |-> payload,
                                         prev |-> regKv[k]])
    /\ regRev' = regRev + 1
    /\ UNCHANGED <<regExists, regValues, regListeners, regPc, regResp, regQueue,
                   regWatch, regAdds, regWatched>>
    /\ regLast' = RegNoCallback
    /\ UNCHANGED regView
    /\ UNCHANGED <<regHigh, regRestarts>>
    /\ UNCHANGED notReg

\* Registry.Monitor: getCluster
RegGetCluster ==
    /\ \E l \in RegListenerSet :
         /\ regPc[l] = "idle"
         /\ regPc' = [regPc EXCEPT ![l] = IF regExists THEN "replay" ELSE "register"]
    /\ regExists' = TRUE
    /\ UNCHANGED <<regKv, regRev, regLog, regValues, regListeners, regResp, regQueue,
                   regWatch, regAdds, regWatched>>
    /\ regLast' = RegNoCallback
    /\ UNCHANGED regView
    /\ UNCHANGED <<regHigh, regRestarts>>
    /\ UNCHANGED notReg

\* Registry.Monitor: the cluster existed, replay getCurrent to the listener
RegReplay ==
    /\ \E l \in RegListenerSet :
         /\ regPc[l] = "replay"
         /\ regAdds' = RegOnAdd(regAdds, {l}, GetCurrent(regValues))
         /\ regView' = ViewOnAdd(regView, {l}, GetCurrent(regValues))
         /\ regPc' = [regPc EXCEPT ![l] = "register"]
    /\ UNCHANGED <<regKv, regRev, regLog, regExists, regValues, regListeners, regResp,
                   regQueue, regWatch, regWatched>>
    /\ regLast' = RegNoCallback
    /\ UNCHANGED <<regHigh, regRestarts>>
    /\ UNCHANGED notReg

\* cluster.monitor: append the listener under c.lock
RegRegister ==
    /\ \E l \in RegListenerSet :
         /\ regPc[l] = "register"
         /\ regListeners' = Append(regListeners, l)
         /\ regPc' = [regPc EXCEPT ![l] = "get"]
    /\ UNCHANGED <<regKv, regRev, regLog, regExists, regValues, regResp, regQueue,
                   regWatch, regAdds, regWatched>>
    /\ regLast' = RegNoCallback
    /\ UNCHANGED regView
    /\ UNCHANGED <<regHigh, regRestarts>>
    /\ UNCHANGED notReg

\* cluster.load: cli.Get answers with the coordinator's state and revision
RegLoadGet ==
    /\ \E l \in RegListenerSet :
         /\ regPc[l] = "get"
         /\ regResp' = [regResp EXCEPT ![l] = [kvs |-> regKv, rev |-> regRev]]
         /\ regPc' = [regPc EXCEPT ![l] = "changes"]
    /\ UNCHANGED <<regKv, regRev, regLog, regExists, regValues, regListeners, regQueue,
                   regWatch, regAdds, regWatched>>
    /\ regLast' = RegNoCallback
    /\ UNCHANGED regView
    /\ UNCHANGED <<regHigh, regRestarts>>
    /\ UNCHANGED notReg

\* cluster.load: handleChanges up to c.lock.Unlock
RegLoadChanges ==
    /\ \E l \in RegListenerSet :
         /\ regPc[l] = "changes"
         /\ LET r == HandleChanges(regValues, regListeners, regResp[l].kvs)
            IN  /\ regValues' = r.values
                /\ regQueue' = [regQueue EXCEPT ![l] = r.queue]
         /\ regPc' = [regPc EXCEPT ![l] = "deliver"]
         /\ regHigh' = Max(regHigh, regResp[l].rev)
         /\ UNCHANGED regRestarts
    /\ UNCHANGED <<regKv, regRev, regLog, regExists, regListeners, regResp, regWatch,
                   regAdds, regWatched>>
    /\ regLast' = RegNoCallback
    /\ UNCHANGED regView
    /\ UNCHANGED notReg

\* cluster.load: handleChanges calls the listeners for one kv, adds first
RegLoadDeliver ==
    /\ \E l \in RegListenerSet :
         /\ regPc[l] = "deliver"
         /\ LET q == regQueue[l]
            IN  \/ /\ q.add # {}
                   /\ \E kv \in q.add :
                        /\ regAdds' = RegOnAdd(regAdds, RegRange(q.listeners), {kv.key})
                        /\ regView' = ViewOnAdd(regView, RegRange(q.listeners), {kv.key})
                        /\ regQueue' = [regQueue EXCEPT ![l].add = @ \ {kv}]
                \/ /\ q.add = {}
                   /\ q.remove # {}
                   /\ \E kv \in q.remove :
                        /\ regQueue' = [regQueue EXCEPT ![l].remove = @ \ {kv}]
                        /\ regView' = ViewOnDelete(regView, RegRange(q.listeners), kv.key)
                   /\ UNCHANGED regAdds
    /\ UNCHANGED <<regKv, regRev, regLog, regExists, regValues, regListeners, regPc,
                   regResp, regWatch, regWatched>>
    /\ regLast' = RegNoCallback
    /\ UNCHANGED <<regHigh, regRestarts>>
    /\ UNCHANGED notReg

\* cluster.monitor: watchGroup.Run(watch(cli, key, rev)); Monitor returns
RegStartWatch ==
    /\ \E l \in RegListenerSet :
         /\ regPc[l] = "deliver"
         /\ regQueue[l].add = {}
         /\ regQueue[l].remove = {}
         /\ regWatch' = [regWatch EXCEPT ![l] =
                [on |-> TRUE, rev |-> regResp[l].rev, events |-> <<>>, listeners |-> <<>>]]
         /\ regPc' = [regPc EXCEPT ![l] = "done"]
    /\ UNCHANGED <<regKv, regRev, regLog, regExists, regValues, regListeners, regResp,
                   regQueue, regAdds, regWatched>>
    /\ regLast' = RegNoCallback
    /\ UNCHANGED regView
    /\ UNCHANGED <<regHigh, regRestarts>>
    /\ UNCHANGED notReg

\* cluster.watchStream: a response with the next events arrives (WithRev(rev+1));
\* handleWatchEvents copies the listeners under c.lock
RegWatchReceive ==
    /\ \E l \in RegListenerSet :
         LET w == regWatch[l]
         IN  /\ w.on
             /\ w.events = <<>>
             /\ \E n \in 1..(regRev - w.rev) :
                  regWatch' = [regWatch EXCEPT ![l] =
                      [on |-> TRUE, rev |-> w.rev + n,
                       events |-> SubSeq(regLog, w.rev + 1, w.rev + n),
                       listeners |-> regListeners]]
    /\ UNCHANGED <<regKv, regRev, regLog, regExists, regValues, regListeners, regPc,
                   regResp, regQueue, regAdds, regWatched>>
    /\ regLast' = RegNoCallback
    /\ UNCHANGED regView
    /\ UNCHANGED <<regHigh, regRestarts>>
    /\ UNCHANGED notReg

\* cluster.handleWatchEvents: one event is applied and the listeners are called
RegWatchHandle ==
    /\ \E l \in RegListenerSet :
         LET w == regWatch[l]
             ev == Head(w.events)
             ls == RegRange(w.listeners)
         IN  /\ w.on
             /\ w.events # <<>>
             /\ regValues' = ApplyEvent(regValues, ev)
             /\ regAdds' = IF ev.type = "put" THEN RegOnAdd(regAdds, ls, {ev.key})
                           ELSE regAdds
             /\ regView' = IF ev.type = "put" THEN ViewOnAdd(regView, ls, {ev.key})
                           ELSE ViewOnDelete(regView, ls, ev.key)
             /\ regWatched' = [x \in RegListenerSet |-> regWatched[x] \/ x \in ls]
             /\ regWatch' = [regWatch EXCEPT ![l].events = Tail(@)]
             /\ regHigh' = Max(regHigh, EventRev(w))
             /\ UNCHANGED regRestarts
             /\ regLast' = [kind |-> IF ev.type = "put" THEN "OnAdd" ELSE "OnDelete",
                            key |-> ev.key, val |-> ev.val, prev |-> ev.prev, ls |-> ls]
    /\ UNCHANGED <<regKv, regRev, regLog, regExists, regListeners, regPc, regResp,
                   regQueue>>
    /\ UNCHANGED notReg

\* cluster.watch: watchStream returned false (the stream was closed or
\* cancelled) and is called again, with the rev of the load (a restart
\* before any response was handled changes nothing)
RegWatchRestart ==
    /\ regRestarts < RegMaxRestarts
    /\ regRestarts' = regRestarts + 1
    /\ \E l \in RegListenerSet :
         /\ regWatch[l].on
         /\ regWatch[l].events = <<>>
         /\ regWatch[l].rev > regResp[l].rev
         /\ regWatch' = [regWatch EXCEPT ![l].rev = regResp[l].rev]
    /\ UNCHANGED <<regKv, regRev, regLog, regExists, regValues, regListeners, regPc,
                   regResp, regQueue, regAdds, regWatched, regView, regHigh>>
    /\ regLast' = RegNoCallback
    /\ UNCHANGED notReg

RegNext ==
    \/ RegPut \/ RegDelete
    \/ RegGetCluster \/ RegReplay \/ RegRegister
    \/ RegLoadGet \/ RegLoadChanges \/ RegLoadDeliver \/ RegStartWatch
    \/ RegWatchReceive \/ RegWatchHandle

\* one Monitor call on a new cluster, with a watch stream that fails
RegRestartNext ==
    \/ RegPut \/ RegDelete
    \/ RegGetCluster \/ RegRegister
    \/ RegLoadGet \/ RegLoadChanges \/ RegLoadDeliver \/ RegStartWatch
    \/ RegWatchReceive \/ RegWatchHandle \/ RegWatchRestart

----------------------------------------------------------------------------
(* core/collection/cache.go: Take, Del and expiry on one key.  The cache   *)
(* has no limit (emptyLru), the timing wheel is reduced to whether it      *)
(* holds an expiry task for the key, and the barrier (syncx.SingleFlight)  *)
(* follows its documented contract: one call per key at a time, shared by  *)
(* the callers that arrive while it runs.                                  *)

\* Take calls over a behaviour
CacheMaxTakes == 3

\* values fetch can return
CacheVals == {1, 2}

\* the goroutines calling Take
CacheCallers == {1, 2, 3}

CacheAbsent == 0

\* what fetch can return: a value and an error or nil
FetchOutcomes == {[val |-> v, err |-> e] : v \in CacheVals, e \in {"nil", "err"}}

\* the calls of the barrier are told apart by 1..3: a caller refers to one
\* call at most
SfIds == CacheCallers

SfNoCall ==
    [owner |-> 0, done |-> FALSE, val |-> 0, err |-> "nil", fetches |-> 0, stored |-> 0]

\* a call of the barrier
SfNewCall(c) == [SfNoCall EXCEPT !.owner = c]

\* the least id no call uses
SfFreeId(flights) == CHOOSE n \in SfIds : flights[n] = SfNoCall /\ \A m \in SfIds : m < n => flights[m] # SfNoCall

\* the calls once caller c has let go of its own
SfRelease(flights, joined, c) ==
    [n \in SfIds |->
        IF joined[c] = n /\ \A d \in CacheCallers \ {c} : joined[d] # n
        THEN SfNoCall
        ELSE flights[n]]

\* Cache.doGet
DoGet(data) == [value |-> data, ok |-> data # CacheAbsent]

\* the closure of Take after fetch returned (v, e): a failure is returned
\* as it is, a success sets fresh and is stored
FetchedFillStoresFailure(v, e) ==
    [fresh |-> e = "nil", set |-> TRUE, val |-> v, err |-> e]

FetchedFill(v, e) ==
    IF e # "nil"
    THEN [fresh |-> FALSE, set |-> FALSE, val |-> 0, err |-> e]
    ELSE [fresh |-> TRUE, set |-> TRUE, val |-> v, err |-> "nil"]

\* the callers inside the closure of a barrier call
CacheFilling ==
    {c \in CacheCallers : cachePc[c] \in {"check", "fetch", "set", "setNew", "setMove", "finish"}}

CacheInit ==
    /\ cacheData = CacheAbsent
    /\ cacheTimer = FALSE
    /\ cacheDelPc = "idle"
    /\ cacheHit = 0
    /\ cacheMiss = 0
    /\ cacheCalls = 0
    /\ cacheFlights = [n \in SfIds |-> SfNoCall]
    /\ cachePc = [c \in CacheCallers |-> "idle"]
    /\ cacheVal = [c \in CacheCallers |-> 0]
    /\ cacheErr = [c \in CacheCallers |-> "nil"]
    /\ cacheFresh = [c \in CacheCallers |-> FALSE]
    /\ cacheJoined = [c \in CacheCallers |-> 0]
    /\ cacheFetched = [c \in CacheCallers |-> 0]
    /\ cacheTakes = 0

\* a caller calls Take, for the first time or again: up to the first doGet,
\* where a hit returns the value
CacheTake(c) ==
    /\ cachePc[c] \in {"idle", "done"}
    /\ cacheTakes < CacheMaxTakes
    /\ cacheTakes' = cacheTakes + 1
    /\ cacheFresh' = [cacheFresh EXCEPT ![c] = FALSE]
    /\ cacheJoined' = [cacheJoined EXCEPT ![c] = 0]
    /\ cacheFetched' = [cacheFetched EXCEPT ![c] = 0]
    /\ cacheErr' = [cacheErr EXCEPT ![c] = "nil"]
    /\ LET got == DoGet(cacheData)
       IN  IF got.ok
           THEN /\ cacheHit' = cacheHit + 1
                /\ cacheVal' = [cacheVal EXCEPT ![c] = got.value]
                /\ cachePc' = [cachePc EXCEPT ![c] = "done"]
           ELSE /\ cacheHit' = cacheHit
                /\ cacheVal' = [cacheVal EXCEPT ![c] = 0]
                /\ cachePc' = [cachePc EXCEPT ![c] = "barrier"]
    /\ cacheFlights' = SfRelease(cacheFlights, cacheJoined, c)
    /\ UNCHANGED <<cacheData, cacheTimer, cacheDelPc, cacheMiss, cacheCalls>>
    /\ UNCHANGED notCache

\* barrier.Do: the first caller on the key creates the call and runs the
\* closure, a caller that finds a call in flight waits for it
SfDo(c) ==
    /\ cachePc[c] = "barrier"
    /\ IF cacheCalls # 0
       THEN /\ cacheJoined' = [cacheJoined EXCEPT ![c] = cacheCalls]
            /\ cachePc' = [cachePc EXCEPT ![c] = "wait"]
            /\ UNCHANGED <<cacheCalls, cacheFlights>>
       ELSE /\ cacheFlights' = [cacheFlights EXCEPT ![SfFreeId(cacheFlights)] = SfNewCall(c)]
            /\ cacheCalls' = SfFreeId(cacheFlights)
            /\ cacheJoined' = [cacheJoined EXCEPT ![c] = SfFreeId(cacheFlights)]
            /\ cachePc' = [cachePc EXCEPT ![c] = "check"]
    /\ UNCHANGED <<cacheData, cacheTimer, cacheDelPc, cacheHit, cacheMiss, cacheVal,
                   cacheErr, cacheFresh, cacheFetched, cacheTakes>>
    /\ UNCHANGED notCache

\* the closure: the double check
TakeCheck(c) ==
    /\ cachePc[c] = "check"
    /\ LET got == DoGet(cacheData)
       IN  IF got.ok
           THEN /\ cacheVal' = [cacheVal EXCEPT ![c] = got.value]
                /\ cachePc' = [cachePc EXCEPT ![c] = "finish"]
           ELSE /\ cacheVal' = cacheVal
                /\ cachePc' = [cachePc EXCEPT ![c] = "fetch"]
    /\ UNCHANGED <<cacheData, cacheTimer, cacheDelPc, cacheHit, cacheMiss, cacheCalls,
                   cacheFlights, cacheErr, cacheFresh, cacheJoined, cacheFetched,
                   cacheTakes>>
    /\ UNCHANGED notCache

\* the closure: fetch() and what follows from its result
TakeFetch(c) ==
    /\ cachePc[c] = "fetch"
    /\ \E r \in FetchOutcomes :
         LET fill == FetchedFill(r.val, r.err)
         IN  /\ cacheVal' = [cacheVal EXCEPT ![c] = fill.val]
             /\ cacheErr' = [cacheErr EXCEPT ![c] = fill.err]
             /\ cacheFresh' = [cacheFresh EXCEPT ![c] = fill.fresh]
             /\ cachePc' = [cachePc EXCEPT ![c] = IF fill.set THEN "set" ELSE "finish"]
    /\ cacheFetched' = [cacheFetched EXCEPT ![c] = @ + 1]
    /\ cacheFlights' = [cacheFlights EXCEPT ![cacheJoined[c]].fetches = @ + 1]
    /\ UNCHANGED <<cacheData, cacheTimer, cacheDelPc, cacheHit, cacheMiss, cacheCalls,
                   cacheJoined, cacheTakes>>
    /\ UNCHANGED notCache

\* the closure: c.Set(key, v), the part of SetWithExpire under c.lock
TakeSet(c) ==
    /\ cachePc[c] = "set"
    /\ cacheData' = cacheVal[c]
    /\ cacheFlights' = [cacheFlights EXCEPT ![cacheJoined[c]].stored = cacheVal[c]]
    /\ cachePc' = [cachePc EXCEPT ![c] = IF DoGet(cacheData).ok THEN "setMove" ELSE "setNew"]
    /\ UNCHANGED <<cacheTimer, cacheDelPc, cacheHit, cacheMiss, cacheCalls, cacheVal,
                   cacheErr, cacheFresh, cacheJoined, cacheFetched, cacheTakes>>
    /\ UNCHANGED notCache

\* SetWithExpire after the lock: MoveTimer on a key that existed (a key the
\* wheel does not hold is left alone), SetTimer on a new one
TakeSetTimer(c) ==
    /\ cachePc[c] \in {"setMove", "setNew"}
    /\ cacheTimer' = IF cachePc[c] = "setNew" THEN TRUE ELSE cacheTimer
    /\ cachePc' = [cachePc EXCEPT ![c] = "finish"]
    /\ UNCHANGED <<cacheData, cacheDelPc, cacheHit, cacheMiss, cacheCalls, cacheFlights,
                   cacheVal, cacheErr, cacheFresh, cacheJoined, cacheFetched, cacheTakes>>
    /\ UNCHANGED notCache

\* barrier.Do, the closure returned: the call leaves the barrier and its
\* result is published to the callers waiting for it
SfDone(c) ==
    /\ cachePc[c] = "finish"
    /\ cacheFlights' = [cacheFlights EXCEPT ![cacheJoined[c]].done = TRUE,
                                            ![cacheJoined[c]].val = cacheVal[c],
                                            ![cacheJoined[c]].err = cacheErr[c]]
    /\ cacheCalls' = 0
    /\ cachePc' = [cachePc EXCEPT ![c] = "return"]
    /\ UNCHANGED <<cacheData, cacheTimer, cacheDelPc, cacheHit, cacheMiss, cacheVal,
                   cacheErr, cacheFresh, cacheJoined, cacheFetched, cacheTakes>>
    /\ UNCHANGED notCache

\* barrier.Do of a waiting caller returns the result of the call it joined
SfWake(c) ==
    /\ cachePc[c] = "wait"
    /\ cacheFlights[cacheJoined[c]].done
    /\ cacheVal' = [cacheVal EXCEPT ![c] = cacheFlights[cacheJoined[c]].val]
    /\ cacheErr' = [cacheErr EXCEPT ![c] = cacheFlights[cacheJoined[c]].err]
    /\ cachePc' = [cachePc EXCEPT ![c] = "return"]
    /\ UNCHANGED <<cacheData, cacheTimer, cacheDelPc, cacheHit, cacheMiss, cacheCalls,
                   cacheFlights, cacheFresh, cacheJoined, cacheFetched, cacheTakes>>
    /\ UNCHANGED notCache

\* Take after barrier.Do: the error, or the value counted as miss when
\* fresh and as hit otherwise
TakeReturn(c) ==
    /\ cachePc[c] = "return"
    /\ cachePc' = [cachePc EXCEPT ![c] = "done"]
    /\ cacheVal' = [cacheVal EXCEPT ![c] = IF cacheErr[c] # "nil" THEN 0 ELSE @]
    /\ cacheMiss' = IF cacheErr[c] = "nil" /\ cacheFresh[c] THEN cacheMiss + 1 ELSE cacheMiss
    /\ cacheHit' = IF cacheErr[c] = "nil" /\ ~cacheFresh[c] THEN cacheHit + 1 ELSE cacheHit
    /\ UNCHANGED <<cacheData, cacheTimer, cacheDelPc, cacheCalls, cacheFlights, cacheErr,
                   cacheFresh, cacheJoined, cacheFetched, cacheTakes>>
    /\ UNCHANGED notCache

\* another goroutine calls Del(key)
CacheDel ==
    /\ cacheDelPc = "idle"
    /\ cacheDelPc' = "delete"
    /\ UNCHANGED <<cacheData, cacheTimer, cacheHit, cacheMiss, cacheCalls, cacheFlights,
                   cachePc, cacheVal, cacheErr, cacheFresh, cacheJoined, cacheFetched,
                   cacheTakes>>
    /\ UNCHANGED notCache

\* the wheel runs the expiry task of the key: the callback of NewCache
\* calls Del(key)
CacheExpire ==
    /\ cacheDelPc = "idle"
    /\ cacheTimer
    /\ cacheTimer' = FALSE
    /\ cacheDelPc' = "delete"
    /\ UNCHANGED <<cacheData, cacheHit, cacheMiss, cacheCalls, cacheFlights, cachePc,
                   cacheVal, cacheErr, cacheFresh, cacheJoined, cacheFetched, cacheTakes>>
    /\ UNCHANGED notCache

\* Del, the part under c.lock
CacheDelData ==
    /\ cacheDelPc = "delete"
    /\ cacheData' = CacheAbsent
    /\ cacheDelPc' = "timer"
    /\ UNCHANGED <<cacheTimer, cacheHit, cacheMiss, cacheCalls, cacheFlights, cachePc,
                   cacheVal, cacheErr, cacheFresh, cacheJoined, cacheFetched, cacheTakes>>
    /\ UNCHANGED notCache

\* Del after the lock: timingWheel.RemoveTimer(key)
CacheDelTimer ==
    /\ cacheDelPc = "timer"
    /\ cacheTimer' = FALSE
    /\ cacheDelPc' = "idle"
    /\ UNCHANGED <<cacheData, cacheHit, cacheMiss, cacheCalls, cacheFlights, cachePc,
                   cacheVal, cacheErr, cacheFresh, cacheJoined, cacheFetched, cacheTakes>>
    /\ UNCHANGED notCache

CacheNext ==
    \/ \E c \in CacheCallers : CacheTake(c)
    \/ \E c \in CacheCallers : SfDo(c)
    \/ \E c \in CacheCallers : TakeCheck(c)
    \/ \E c \in CacheCallers : TakeFetch(c)
    \/ \E c \in CacheCallers : TakeSet(c)
    \/ \E c \in CacheCallers : TakeSetTimer(c)
    \/ \E c \in CacheCallers : SfDone(c)
    \/ \E c \in CacheCallers : SfWake(c)
    \/ \E c \in CacheCallers : TakeReturn(c)
    \/ CacheDel
    \/ CacheExpire
    \/ CacheDelData
    \/ CacheDelTimer

----------------------------------------------------------------------------
(* zrpc/internal/serverinterceptors/timeoutinterceptor.go: one call of the *)
(* interceptor UnaryTimeoutInterceptor(timeout) returns.  The handler runs  *)
(* for any time or for ever; every other step takes no time, so the clock   *)
(* advances only when neither goroutine has a step of its own to take.      *)

\* timeout: 0..UtMaxTimeout
UtMaxTimeout == 2

\* the clock stops here
UtMaxTime == 3

\* what the handler can return
UtResps == {1, 2}

UtErrs == {"nil", "err"}

UtNoRet == [kind |-> "none", resp |-> 0, err |-> "nil"]

\* the cases of the select that can proceed
SelectReadyNoCtx(panicChan, done, ctxErr) ==
    (IF panicChan # 0 THEN {"panic"} ELSE {}) \cup (IF done THEN {"done"} ELSE {})

SelectReady(panicChan, done, ctxErr) ==
    (IF panicChan # 0 THEN {"panic"} ELSE {})
      \cup (IF done THEN {"done"} ELSE {})
      \cup (IF ctxErr # "nil" THEN {"ctx"} ELSE {})

\* case <-ctx.Done(): the status made from ctx.Err()
CtxStatus(ctxErr) ==
    IF ctxErr = "Canceled" THEN [kind |-> "status", resp |-> 0, err |-> "codes.Canceled"]
    ELSE IF ctxErr = "DeadlineExceeded"
         THEN [kind |-> "status", resp |-> 0, err |-> "codes.DeadlineExceeded"]
         ELSE [kind |-> "status", resp |-> 0, err |-> ctxErr]

\* a select that was blocked is taken by the first case that can proceed
UtWake(panicChan, done, ctxErr) ==
    IF utPc = "blocked" /\ SelectReady(panicChan, done, ctxErr) # {}
    THEN /\ utPc' = "woken"
         /\ utCase' \in SelectReady(panicChan, done, ctxErr)
    ELSE UNCHANGED <<utPc, utCase>>

\* a goroutine has a step to take that takes no time
UtBusy ==
    \/ utPc \in {"spawned", "woken"}
    \/ utPc = "lock" /\ ~utLock
    \/ utWorker \in {"start", "close", "unlock", "panicUnlock", "panicSend"}

UtInit ==
    /\ utNow = 0
    /\ utDeadline \in 0..UtMaxTimeout
    /\ utCtxErr = "nil"
    /\ utCtxTime = 0
    /\ utPc = "idle"
    /\ utCase = "none"
    /\ utWorker = "none"
    /\ utLock = FALSE
    /\ utResp = 0
    /\ utErr = "nil"
    /\ utDone = FALSE
    /\ utPanicChan = 0
    /\ utRet = UtNoRet
    /\ utFirst = "none"

\* the interceptor is called: WithTimeout, the channels, go func
UtCall ==
    /\ utPc = "idle"
    /\ utPc' = "spawned"
    /\ utWorker' = "start"
    /\ IF utCtxErr = "nil" /\ utDeadline <= utNow
       THEN /\ utCtxErr' = "DeadlineExceeded"
            /\ utCtxTime' = utNow
            /\ utFirst' = "ctx"
       ELSE UNCHANGED <<utCtxErr, utCtxTime, utFirst>>
    /\ UNCHANGED <<utNow, utDeadline, utCase, utLock, utResp, utErr, utDone, utPanicChan,
                   utRet>>
    /\ UNCHANGED notUt

\* the parent context is cancelled
UtCancel ==
    /\ utCtxErr = "nil"
    /\ utPc \notin {"returned", "panicked"}
    /\ utCtxErr' = "Canceled"
    /\ utCtxTime' = utNow
    /\ utFirst' = IF utFirst = "none" THEN "ctx" ELSE utFirst
    /\ UtWake(utPanicChan, utDone, "Canceled")
    /\ UNCHANGED <<utNow, utDeadline, utWorker, utLock, utResp, utErr, utDone, utPanicChan,
                   utRet>>
    /\ UNCHANGED notUt

\* time passes; the context is done when its deadline is reached
UtTick ==
    /\ utNow < UtMaxTime
    /\ utPc # "idle"
    /\ ~UtBusy
    /\ utNow' = utNow + 1
    /\ IF utCtxErr = "nil" /\ utDeadline <= utNow + 1
       THEN /\ utCtxErr' = "DeadlineExceeded"
            /\ utCtxTime' = utNow + 1
            /\ utFirst' = IF utFirst = "none" THEN "ctx" ELSE utFirst
            /\ UtWake(utPanicChan, utDone, "DeadlineExceeded")
       ELSE UNCHANGED <<utCtxErr, utCtxTime, utFirst, utPc, utCase>>
    /\ UNCHANGED <<utDeadline, utWorker, utLock, utResp, utErr, utDone, utPanicChan, utRet>>
    /\ UNCHANGED notUt

\* the worker: lock.Lock(), then the handler runs
UtWorkerStart ==
    /\ utWorker = "start"
    /\ ~utLock
    /\ utLock' = TRUE
    /\ utWorker' = "handler"
    /\ UNCHANGED <<utNow, utDeadline, utCtxErr, utCtxTime, utPc, utCase, utResp, utErr,
                   utDone, utPanicChan, utRet, utFirst>>
    /\ UNCHANGED notUt

\* the handler returns: resp, err = handler(ctx, req)
UtHandlerReturn ==
    /\ utWorker = "handler"
    /\ \E r \in UtResps, e \in UtErrs :
         /\ utResp' = r
         /\ utErr' = e
    /\ utWorker' = "close"
    /\ utFirst' = IF utFirst = "none" THEN "handler" ELSE utFirst
    /\ UNCHANGED <<utNow, utDeadline, utCtxErr, utCtxTime, utPc, utCase, utLock, utDone,
                   utPanicChan, utRet>>
    /\ UNCHANGED notUt

\* the handler panics
UtHandlerPanic ==
    /\ utWorker = "handler"
    /\ utWorker' = "panicUnlock"
    /\ utFirst' = IF utFirst = "none" THEN "handler" ELSE utFirst
    /\ UNCHANGED <<utNow, utDeadline, utCtxErr, utCtxTime, utPc, utCase, utLock, utResp,
                   utErr, utDone, utPanicChan, utRet>>
    /\ UNCHANGED notUt

\* the worker: close(done)
UtWorkerClose ==
    /\ utWorker = "close"
    /\ utDone' = TRUE
    /\ utWorker' = "unlock"
    /\ UtWake(utPanicChan, TRUE, utCtxErr)
    /\ UNCHANGED <<utNow, utDeadline, utCtxErr, utCtxTime, utLock, utResp, utErr,
                   utPanicChan, utRet, utFirst>>
    /\ UNCHANGED notUt

\* the worker: the deferred lock.Unlock(), after a return or a panic
UtWorkerUnlock ==
    /\ utWorker \in {"unlock", "panicUnlock"}
    /\ utLock' = FALSE
    /\ utWorker' = IF utWorker = "unlock" THEN "exited" ELSE "panicSend"
    /\ UNCHANGED <<utNow, utDeadline, utCtxErr, utCtxTime, utPc, utCase, utResp, utErr,
                   utDone, utPanicChan, utRet, utFirst>>
    /\ UNCHANGED notUt

\* the worker: the deferred recover sends the panic to panicChan
UtWorkerRecover ==
    /\ utWorker = "panicSend"
    /\ utPanicChan' = 1
    /\ utWorker' = "exited"
    /\ UtWake(1, utDone, utCtxErr)
    /\ UNCHANGED <<utNow, utDeadline, utCtxErr, utCtxTime, utLock, utResp, utErr, utDone,
                   utRet, utFirst>>
    /\ UNCHANGED notUt

\* the interceptor reaches its select: one of the cases that can proceed is
\* taken, or it blocks
UtSelect ==
    /\ utPc = "spawned"
    /\ IF SelectReady(utPanicChan, utDone, utCtxErr) = {}
       THEN /\ utPc' = "blocked"
            /\ utCase' = utCase
       ELSE /\ utPc' = "woken"
            /\ utCase' \in SelectReady(utPanicChan, utDone, utCtxErr)
    /\ UNCHANGED <<utNow, utDeadline, utCtxErr, utCtxTime, utWorker, utLock, utResp, utErr,
                   utDone, utPanicChan, utRet, utFirst>>
    /\ UNCHANGED notUt

\* case p := <-panicChan: panic(p)
UtCasePanic ==
    /\ utPc = "woken"
    /\ utCase = "panic"
    /\ utPanicChan' = 0
    /\ utRet' = [kind |-> "panic", resp |-> 0, err |-> "nil"]
    /\ utPc' = "panicked"
    /\ UNCHANGED <<utNow, utDeadline, utCtxErr, utCtxTime, utCase, utWorker, utLock, utResp,
                   utErr, utDone, utFirst>>
    /\ UNCHANGED notUt

\* case <-done: up to lock.Lock()
UtCaseDone ==
    /\ utPc = "woken"
    /\ utCase = "done"
    /\ utPc' = "lock"
    /\ UNCHANGED <<utNow, utDeadline, utCtxErr, utCtxTime, utCase, utWorker, utLock, utResp,
                   utErr, utDone, utPanicChan, utRet, utFirst>>
    /\ UNCHANGED notUt

\* case <-done: lock.Lock(); return resp, err (the deferred Unlock included)
UtReturnDone ==
    /\ utPc = "lock"
    /\ ~utLock
    /\ utRet' = [kind |-> "value", resp |-> utResp, err |-> utErr]
    /\ utPc' = "returned"
    /\ UNCHANGED <<utNow, utDeadline, utCtxErr, utCtxTime, utCase, utWorker, utLock, utResp,
                   utErr, utDone, utPanicChan, utFirst>>
    /\ UNCHANGED notUt

\* case <-ctx.Done(): return nil, the status of ctx.Err()
UtReturnCtx ==
    /\ utPc = "woken"
    /\ utCase = "ctx"
    /\ utRet' = CtxStatus(utCtxErr)
    /\ utPc' = "returned"
    /\ UNCHANGED <<utNow, utDeadline, utCtxErr, utCtxTime, utCase, utWorker, utLock, utResp,
                   utErr, utDone, utPanicChan, utFirst>>
    /\ UNCHANGED notUt

UtNext ==
    \/ UtCall \/ UtCancel \/ UtTick
    \/ UtWorkerStart \/ UtHandlerReturn \/ UtHandlerPanic
    \/ UtWorkerClose \/ UtWorkerUnlock \/ UtWorkerRecover
    \/ UtSelect \/ UtCasePanic \/ UtCaseDone \/ UtReturnDone \/ UtReturnCtx

----------------------------------------------------------------------------
(* core/proc/shutdown.go, signals.go: SIGTERM / SIGINT and gracefulStop.   *)
(* A listener runs for any time or for ever; every other step takes no     *)
(* time, so the clock moves only to the end of the pending time.Sleep.     *)

\* wrapUpTime, in ms
WrapUpTime == 1000

\* waitTime, in ms
WaitTime == 5500

\* the durations handed to SetTimeToForceQuit
SdGraces == {WrapUpTime \div 2, WrapUpTime, 2 * WrapUpTime}

\* when the process runs before the signal, in ms
SdMaxStart == 1

SdManagers == {"wrapUp", "shutdown"}

\* the listeners added to each manager
SdListenerSet == {1, 2}

SdSignals == {"SIGTERM", "SIGINT"}

\* time.Sleep(d) returns at once when d <= 0
SleepUntil(now, d) == IF d <= 0 THEN now ELSE now + d

\* a goroutine other than a listener has a step to take
SdBusy ==
    \/ sdPc \in {"stopOnSignal", "gracefulStop", "wrapUpSlept", "kill"}
    \/ \E m \in SdManagers : sdNotify[m] = "lock"
    \/ \E m \in SdManagers :
         sdNotify[m] = "wait" /\ \A l \in SdListenerSet : sdListeners[m][l] # "running"

SdInit ==
    /\ sdNow = 0
    /\ sdGrace = WaitTime
    /\ sdPc = "signals"
    /\ sdSig = "none"
    /\ sdSigAt = -1
    /\ sdDone = FALSE
    /\ sdWake = -1
    /\ sdNotify = [m \in SdManagers |-> "none"]
    /\ sdListeners = [m \in SdManagers |-> [l \in SdListenerSet |-> "absent"]]
    /\ sdFiredAt = [m \in SdManagers |-> -1]
    /\ sdKilledAt = -1

\* SetTimeToForceQuit, before any signal
SetTimeToForceQuit ==
    /\ sdPc = "signals"
    /\ \E d \in SdGraces : sdGrace' = d
    /\ UNCHANGED <<sdNow, sdPc, sdSig, sdSigAt, sdDone, sdWake, sdNotify, sdListeners,
                   sdFiredAt, sdKilledAt>>
    /\ UNCHANGED notSd

\* AddWrapUpListener / AddShutdownListener
SdAddListener ==
    /\ sdKilledAt = -1
    /\ \E m \in SdManagers, l \in SdListenerSet :
         /\ sdListeners[m][l] = "absent"
         /\ sdNotify[m] = "none"
         /\ sdListeners' = [sdListeners EXCEPT ![m][l] = "added"]
    /\ UNCHANGED <<sdNow, sdGrace, sdPc, sdSig, sdSigAt, sdDone, sdWake, sdNotify,
                   sdFiredAt, sdKilledAt>>
    /\ UNCHANGED notSd

\* the process runs for a while before any signal
SdRun ==
    /\ sdPc = "signals"
    /\ sdNow < SdMaxStart
    /\ sdNow' = sdNow + 1
    /\ UNCHANGED <<sdGrace, sdPc, sdSig, sdSigAt, sdDone, sdWake, sdNotify, sdListeners,
                   sdFiredAt, sdKilledAt>>
    /\ UNCHANGED notSd

\* v := <-signals, SIGTERM or SIGINT
SdSignal ==
    /\ sdPc = "signals"
    /\ \E v \in SdSignals : sdSig' = v
    /\ sdSigAt' = sdNow
    /\ sdPc' = "stopOnSignal"
    /\ UNCHANGED <<sdNow, sdGrace, sdDone, sdWake, sdNotify, sdListeners, sdFiredAt,
                   sdKilledAt>>
    /\ UNCHANGED notSd

\* stopOnSignal: close(done) unless closed
StopOnSignal ==
    /\ sdPc = "stopOnSignal"
    /\ sdDone' = TRUE
    /\ sdPc' = "gracefulStop"
    /\ UNCHANGED <<sdNow, sdGrace, sdSig, sdSigAt, sdWake, sdNotify, sdListeners,
                   sdFiredAt, sdKilledAt>>
    /\ UNCHANGED notSd

\* gracefulStop: signal.Stop, go wrapUpListeners.notifyListeners(),
\* time.Sleep(wrapUpTime)
GracefulStopBegin ==
    /\ sdPc = "gracefulStop"
    /\ sdNotify' = [sdNotify EXCEPT !["wrapUp"] = "lock"]
    /\ sdWake' = SleepUntil(sdNow, WrapUpTime)
    /\ sdPc' = "sleepWrapUp"
    /\ UNCHANGED <<sdNow, sdGrace, sdSig, sdSigAt, sdDone, sdListeners, sdFiredAt,
                   sdKilledAt>>
    /\ UNCHANGED notSd

\* the pending time.Sleep ends
SdSleepEnd ==
    /\ sdPc \in {"sleepWrapUp", "sleepQuit"}
    /\ ~SdBusy
    /\ sdNow' = sdWake
    /\ sdPc' = IF sdPc = "sleepWrapUp" THEN "wrapUpSlept" ELSE "kill"
    /\ UNCHANGED <<sdGrace, sdSig, sdSigAt, sdDone, sdWake, sdNotify, sdListeners,
                   sdFiredAt, sdKilledAt>>
    /\ UNCHANGED notSd

\* gracefulStop: go shutdownListeners.notifyListeners(),
\* time.Sleep(delayTimeBeforeForceQuit - wrapUpTime)
GracefulStopShutdown ==
    /\ sdPc = "wrapUpSlept"
    /\ sdNotify' = [sdNotify EXCEPT !["shutdown"] = "lock"]
    /\ sdWake' = SleepUntil(sdNow, sdGrace - WrapUpTime)
    /\ sdPc' = "sleepQuit"
    /\ UNCHANGED <<sdNow, sdGrace, sdSig, sdSigAt, sdDone, sdListeners, sdFiredAt,
                   sdKilledAt>>
    /\ UNCHANGED notSd

\* gracefulStop: syscall.Kill(syscall.Getpid(), sig); the signal is no longer
\* caught, the process dies
GracefulStopKill ==
    /\ sdPc = "kill"
    /\ sdKilledAt' = sdNow
    /\ sdPc' = "killed"
    /\ UNCHANGED <<sdNow, sdGrace, sdSig, sdSigAt, sdDone, sdWake, sdNotify, sdListeners,
                   sdFiredAt>>
    /\ UNCHANGED notSd

\* notifyListeners: under lm.lock, group.RunSafe(listener) for every listener
NotifyListeners ==
    /\ sdPc # "killed"
    /\ \E m \in SdManagers :
         /\ sdNotify[m] = "lock"
         /\ sdListeners' = [sdListeners EXCEPT ![m] =
                [l \in SdListenerSet |-> IF sdListeners[m][l] = "added" THEN "running"
                                         ELSE sdListeners[m][l]]]
         /\ sdFiredAt' = [sdFiredAt EXCEPT ![m] = sdNow]
         /\ sdNotify' = [sdNotify EXCEPT ![m] = "wait"]
    /\ UNCHANGED <<sdNow, sdGrace, sdPc, sdSig, sdSigAt, sdDone, sdWake, sdKilledAt>>
    /\ UNCHANGED notSd

\* a listener returns
SdListenerReturn ==
    /\ sdPc # "killed"
    /\ \E m \in SdManagers, l \in SdListenerSet :
         /\ sdListeners[m][l] = "running"
         /\ sdListeners' = [sdListeners EXCEPT ![m][l] = "returned"]
    /\ UNCHANGED <<sdNow, sdGrace, sdPc, sdSig, sdSigAt, sdDone, sdWake, sdNotify,
                   sdFiredAt, sdKilledAt>>
    /\ UNCHANGED notSd

\* notifyListeners: group.Wait() returns, lm.listeners = nil
NotifyListenersEnd ==
    /\ sdPc # "killed"
    /\ \E m \in SdManagers :
         /\ sdNotify[m] = "wait"
         /\ \A l \in SdListenerSet : sdListeners[m][l] # "running"
         /\ sdNotify' = [sdNotify EXCEPT ![m] = "returned"]
    /\ UNCHANGED <<sdNow, sdGrace, sdPc, sdSig, sdSigAt, sdDone, sdWake, sdListeners,
                   sdFiredAt, sdKilledAt>>
    /\ UNCHANGED notSd

SdNext ==
    \/ SetTimeToForceQuit \/ SdAddListener \/ SdRun \/ SdSignal \/ StopOnSignal
    \/ GracefulStopBegin \/ SdSleepEnd \/ GracefulStopShutdown \/ GracefulStopKill
    \/ NotifyListeners \/ SdListenerReturn \/ NotifyListenersEnd

----------------------------------------------------------------------------
(* core/discov/internal/registry.go: reload against the goroutines of the   *)
(* watch group, one cluster, one prefix.  A section between Lock and Unlock *)
(* that cannot block is one step; only reload keeps the lock across steps.  *)

\* goroutines the watch groups run at a time, at most
RlMaxWatchers == 2

\* connection state changes, each starting one reload
RlMaxReloads == 2

\* watch responses the coordinator sends
RlMaxEvents == 2

RlSlots == 1..RlMaxWatchers

RlCalls == 1..RlMaxReloads

RlNoWatcher == [pc |-> "none", group |-> 0]

\* the smallest free slot
RlFreeSlot(watchers) == CHOOSE s \in RlSlots :
    /\ watchers[s] = RlNoWatcher
    /\ \A t \in RlSlots : watchers[t] = RlNoWatcher => s <= t

\* RoutineGroup.Run: one more goroutine of the group, starting at pc
RoutineGroupRun(watchers, group, pc) ==
    [watchers EXCEPT ![RlFreeSlot(watchers)] = [pc |-> pc, group |-> group]]

\* RoutineGroup.Wait returns: no goroutine of the group is left
RoutineGroupWaitDone(watchers, group) ==
    \A s \in RlSlots : watchers[s].pc # "none" => watchers[s].group # group

\* the steps of a goroutine that begin with c.lock.Lock()
RlNeedsLock == {"handleChanges", "listeners", "event"}

\* an earlier Monitor has returned: its watcher is in the select of watchStream
RlInit ==
    /\ rlLock = FALSE
    /\ rlDone = FALSE
    /\ rlGroup = 0
    /\ rlWatchers = [s \in RlSlots |->
                       IF s = 1 THEN [pc |-> "select", group |-> 0] ELSE RlNoWatcher]
    /\ rlReload = [r \in RlCalls |-> "idle"]
    /\ rlMonitor = "idle"
    /\ rlEvents = RlMaxEvents

\* watchConnState: the connection state changes, go c.reload(cli)
RlStateChange ==
    /\ \E r \in RlCalls :
         /\ rlReload[r] = "idle"
         /\ \A q \in RlCalls : q < r => rlReload[q] # "idle"
         /\ rlReload' = [rlReload EXCEPT ![r] = "lock"]
    /\ UNCHANGED <<rlLock, rlDone, rlGroup, rlWatchers, rlMonitor, rlEvents>>
    /\ UNCHANGED notRl

\* reload: c.lock.Lock(); close(c.done); then c.watchGroup.Wait()
ReloadLock ==
    /\ ~rlLock
    /\ \E r \in RlCalls :
         /\ rlReload[r] = "lock"
         /\ rlReload' = [rlReload EXCEPT ![r] = "wait"]
    /\ rlLock' = TRUE
    /\ rlDone' = TRUE
    /\ UNCHANGED <<rlGroup, rlWatchers, rlMonitor, rlEvents>>
    /\ UNCHANGED notRl

\* reload: Wait returns; new done, new watchGroup, the keys, c.lock.Unlock()
ReloadWaited ==
    /\ RoutineGroupWaitDone(rlWatchers, rlGroup)
    /\ \E r \in RlCalls :
         /\ rlReload[r] = "wait"
         /\ rlReload' = [rlReload EXCEPT ![r] = "run"]
    /\ rlDone' = FALSE
    /\ rlGroup' = rlGroup + 1
    /\ rlLock' = FALSE
    /\ UNCHANGED <<rlWatchers, rlMonitor, rlEvents>>
    /\ UNCHANGED notRl

\* reload: c.watchGroup.Run(load, watch) for the prefix
ReloadRun ==
    /\ \E s \in RlSlots : rlWatchers[s] = RlNoWatcher
    /\ \E r \in RlCalls :
         /\ rlReload[r] = "run"
         /\ rlReload' = [rlReload EXCEPT ![r] = "returned"]
    /\ rlWatchers' = RoutineGroupRun(rlWatchers, rlGroup, "load")
    /\ UNCHANGED <<rlLock, rlDone, rlGroup, rlMonitor, rlEvents>>
    /\ UNCHANGED notRl

\* load in a goroutine of the group: cli.Get succeeds
RlLoadGet ==
    /\ \E s \in RlSlots :
         /\ rlWatchers[s].pc = "load"
         /\ rlWatchers' = [rlWatchers EXCEPT ![s].pc = "handleChanges"]
    /\ UNCHANGED <<rlLock, rlDone, rlGroup, rlReload, rlMonitor, rlEvents>>
    /\ UNCHANGED notRl

\* handleChanges in a goroutine of the group, then watchStream opens the watch
RlHandleChanges ==
    /\ ~rlLock
    /\ \E s \in RlSlots :
         /\ rlWatchers[s].pc = "handleChanges"
         /\ rlWatchers' = [rlWatchers EXCEPT ![s].pc = "select"]
    /\ UNCHANGED <<rlLock, rlDone, rlGroup, rlReload, rlMonitor, rlEvents>>
    /\ UNCHANGED notRl

\* watchStream: the select takes a watch response (with done closed as well,
\* the select takes either case)
WatchStreamReceive ==
    /\ rlEvents > 0
    /\ rlEvents' = rlEvents - 1
    /\ \E s \in RlSlots :
         /\ rlWatchers[s].pc = "select"
         /\ rlWatchers' = [rlWatchers EXCEPT ![s].pc = "listeners"]
    /\ UNCHANGED <<rlLock, rlDone, rlGroup, rlReload, rlMonitor>>
    /\ UNCHANGED notRl

\* watchStream: the select takes <-c.done; watch returns, the goroutine ends
WatchStreamDone ==
    /\ rlDone
    /\ \E s \in RlSlots :
         /\ rlWatchers[s].pc = "select"
         /\ rlWatchers' = [rlWatchers EXCEPT ![s] = RlNoWatcher]
    /\ UNCHANGED <<rlLock, rlDone, rlGroup, rlReload, rlMonitor, rlEvents>>
    /\ UNCHANGED notRl

\* handleWatchEvents: the listeners are copied under the lock
RlCopyListeners ==
    /\ ~rlLock
    /\ \E s \in RlSlots :
         /\ rlWatchers[s].pc = "listeners"
         /\ rlWatchers' = [rlWatchers EXCEPT ![s].pc = "event"]
    /\ UNCHANGED <<rlLock, rlDone, rlGroup, rlReload, rlMonitor, rlEvents>>
    /\ UNCHANGED notRl

\* handleWatchEvents: the event is applied under the lock, the listeners are
\* called, and watchStream is back at its select
RlApplyEvent ==
    /\ ~rlLock
    /\ \E s \in RlSlots :
         /\ rlWatchers[s].pc = "event"
         /\ rlWatchers' = [rlWatchers EXCEPT ![s].pc = "select"]
    /\ UNCHANGED <<rlLock, rlDone, rlGroup, rlReload, rlMonitor, rlEvents>>
    /\ UNCHANGED notRl

\* Registry.Monitor is called for the prefix
RlMonitorCall ==
    /\ rlMonitor = "idle"
    /\ rlMonitor' = "register"
    /\ UNCHANGED <<rlLock, rlDone, rlGroup, rlWatchers, rlReload, rlEvents>>
    /\ UNCHANGED notRl

\* monitor: the listener is appended under the lock; then load: cli.Get
RlMonitorRegister ==
    /\ ~rlLock
    /\ rlMonitor = "register"
    /\ rlMonitor' = "handleChanges"
    /\ UNCHANGED <<rlLock, rlDone, rlGroup, rlWatchers, rlReload, rlEvents>>
    /\ UNCHANGED notRl

\* monitor: handleChanges of its load
RlMonitorChanges ==
    /\ ~rlLock
    /\ rlMonitor = "handleChanges"
    /\ rlMonitor' = "run"
    /\ UNCHANGED <<rlLock, rlDone, rlGroup, rlWatchers, rlReload, rlEvents>>
    /\ UNCHANGED notRl

\* monitor: c.watchGroup.Run(watch); Monitor returns
RlMonitorRun ==
    /\ \E s \in RlSlots : rlWatchers[s] = RlNoWatcher
    /\ rlMonitor = "run"
    /\ rlMonitor' = "returned"
    /\ rlWatchers' = RoutineGroupRun(rlWatchers, rlGroup, "select")
    /\ UNCHANGED <<rlLock, rlDone, rlGroup, rlReload, rlEvents>>
    /\ UNCHANGED notRl

RlNext ==
    \/ RlStateChange \/ ReloadLock \/ ReloadWaited \/ ReloadRun
    \/ RlLoadGet \/ RlHandleChanges
    \/ WatchStreamReceive \/ WatchStreamDone \/ RlCopyListeners \/ RlApplyEvent
    \/ RlMonitorCall \/ RlMonitorRegister \/ RlMonitorChanges \/ RlMonitorRun

----------------------------------------------------------------------------
(* core/collection/cache.go: a Cache built with WithLimit, several keys.    *)
(* A section under c.lock is one step; the timer call a method makes after  *)
(* Unlock is a later step of the same goroutine.  A call on the timing      *)
(* wheel takes effect when the run loop receives it, before the call        *)
(* returns.                                                                 *)

\* WithLimit(limit)
LcLimit == 2

LcNumKeys == 3

LcNumCallers == 2

LcKeys == 1..LcNumKeys

\* goroutines calling the cache
LcCallers == 1..LcNumCallers

\* the goroutine in which the timing wheel runs execute, that is cache.Del
LcWheel == 0

LcIdle == [op |-> "idle", key |-> 0]

\* list.Remove of the element holding key
ListWithout(list, key) == SelectSeq(list, LAMBDA k : k # key)

\* the keys of a list
ListKeys(list) == {list[i] : i \in 1..Len(list)}

\* keyLru.add: MoveToFront of a known key; PushFront of a new one and
\* removeOldest, the back of the list, when the list is longer than limit
KeyLruAdd(list, limit, key) ==
    IF key \in ListKeys(list)
    THEN [list |-> <<key>> \o ListWithout(list, key), evicted |-> 0]
    ELSE LET pushed == <<key>> \o list
         IN  IF Len(pushed) > limit
             THEN [list |-> SubSeq(pushed, 1, Len(pushed) - 1),
                   evicted |-> pushed[Len(pushed)]]
             ELSE [list |-> pushed, evicted |-> 0]

\* keyLru.remove: removeElement when the key is known
KeyLruRemove(list, key) == ListWithout(list, key)

\* the order of last use after key was set or read and gone were dropped
Touched(recent, key, gone) ==
    SelectSeq(<<key>> \o ListWithout(recent, key), LAMBDA k : k \notin gone)

LcInit ==
    /\ lcData = {}
    /\ lcList = <<>>
    /\ lcTimers = {}
    /\ lcPc = [c \in LcCallers \cup {LcWheel} |-> LcIdle]
    /\ lcRecent = <<>>
    /\ lcEvicted = {}
    /\ lcLast = 0

\* Cache.SetWithExpire up to Unlock: data[key] = value, lruCache.add(key);
\* removeElement calls onEvict, which deletes the evicted key from data and
\* removes its timer
LcDoSet(c, key) ==
    LET ok == key \in lcData
        r == KeyLruAdd(lcList, LcLimit, key)
        gone == IF r.evicted = 0 THEN {} ELSE {r.evicted}
    IN  /\ lcData' = (lcData \cup {key}) \ gone
        /\ lcList' = r.list
        /\ lcTimers' = lcTimers \ gone
        /\ lcPc' = [lcPc EXCEPT ![c] = [op |-> IF ok THEN "move" ELSE "set", key |-> key]]
        /\ lcRecent' = Touched(lcRecent, key, gone)
        /\ lcEvicted' = (lcEvicted \ {key}) \cup gone
        /\ lcLast' = r.evicted
        /\ UNCHANGED notLc

\* Cache.doGet: a hit calls lruCache.add(key)
LcDoGet(c, key) ==
    /\ IF key \in lcData
       THEN LET r == KeyLruAdd(lcList, LcLimit, key)
                gone == IF r.evicted = 0 THEN {} ELSE {r.evicted}
            IN  /\ lcData' = lcData \ gone
                /\ lcList' = r.list
                /\ lcTimers' = lcTimers \ gone
                /\ lcRecent' = Touched(lcRecent, key, gone)
                /\ lcEvicted' = lcEvicted \cup gone
                /\ lcLast' = r.evicted
       ELSE /\ UNCHANGED <<lcData, lcList, lcTimers, lcRecent, lcEvicted>>
            /\ lcLast' = 0
    /\ UNCHANGED lcPc
    /\ UNCHANGED notLc

\* Cache.Del up to Unlock: delete(data, key), lruCache.remove(key), whose
\* onEvict removes the timer of a key the list knew
LcDoDel(c, key) ==
    /\ lcData' = lcData \ {key}
    /\ lcList' = KeyLruRemove(lcList, key)
    /\ lcTimers' = IF key \in ListKeys(lcList) THEN lcTimers \ {key} ELSE lcTimers
    /\ lcPc' = [lcPc EXCEPT ![c] = [op |-> "remove", key |-> key]]
    /\ lcRecent' = ListWithout(lcRecent, key)
    /\ lcLast' = 0
    /\ UNCHANGED lcEvicted
    /\ UNCHANGED notLc

\* Set, SetWithExpire
LcSet ==
    \E c \in LcCallers, key \in LcKeys :
       /\ lcPc[c] = LcIdle
       /\ LcDoSet(c, key)

\* Get
LcGet ==
    \E c \in LcCallers, key \in LcKeys :
       /\ lcPc[c] = LcIdle
       /\ LcDoGet(c, key)

\* Take: a hit of doGet, or fetch and, when it gave a value, Set
LcTake ==
    \E c \in LcCallers, key \in LcKeys :
       /\ lcPc[c] = LcIdle
       /\ IF key \in lcData
          THEN LcDoGet(c, key)
          ELSE \E fetched \in BOOLEAN :
                  IF fetched THEN LcDoSet(c, key)
                  ELSE /\ lcLast' = 0
                       /\ UNCHANGED <<lcData, lcList, lcTimers, lcPc, lcRecent, lcEvicted>>
                       /\ UNCHANGED notLc

\* Del
LcDel ==
    \E c \in LcCallers, key \in LcKeys :
       /\ lcPc[c] = LcIdle
       /\ LcDoDel(c, key)

\* the call after Unlock: SetTimer for a key that was absent, MoveTimer for
\* one that was present, RemoveTimer at the end of Del
LcTimerCall ==
    \E c \in LcCallers \cup {LcWheel} :
       /\ lcPc[c].op \in {"set", "move", "remove"}
       /\ lcTimers' = CASE lcPc[c].op = "set" -> lcTimers \cup {lcPc[c].key}
                        [] lcPc[c].op = "move" -> lcTimers
                        [] lcPc[c].op = "remove" -> lcTimers \ {lcPc[c].key}
       /\ lcPc' = [lcPc EXCEPT ![c] = LcIdle]
       /\ lcLast' = 0
       /\ UNCHANGED <<lcData, lcList, lcRecent, lcEvicted>>
       /\ UNCHANGED notLc

\* the timer of a key comes due: the wheel drops it and runs execute
LcTimerFires ==
    /\ lcPc[LcWheel] = LcIdle
    /\ \E key \in lcTimers :
         /\ lcTimers' = lcTimers \ {key}
         /\ lcPc' = [lcPc EXCEPT ![LcWheel] = [op |-> "del", key |-> key]]
    /\ lcLast' = 0
    /\ UNCHANGED <<lcData, lcList, lcRecent, lcEvicted>>
    /\ UNCHANGED notLc

\* execute: cache.Del(key)
LcExecuteDel ==
    /\ lcPc[LcWheel].op = "del"
    /\ LcDoDel(LcWheel, lcPc[LcWheel].key)

LcNext ==
    \/ LcSet \/ LcGet \/ LcTake \/ LcDel \/ LcTimerCall \/ LcTimerFires \/ LcExecuteDel

----------------------------------------------------------------------------
(* core/collection/timingwheel.go: the channels between the callers and the *)
(* run loop.  What a handler does to the slots is the timing wheel section  *)
(* above; here a message is its kind, its caller and its number in the      *)
(* caller's program.  The wheel is not stopped.                             *)

\* operations a caller issues
WlMaxCalls == 2

WlMaxTicks == 1

\* two goroutines use the wheel
WlCallers == {1, 2}

\* SetTimer, MoveTimer, RemoveTimer, Drain: one channel each; the first
\* goroutine sets and moves timers, the second removes them and drains
WlKinds(c) == IF c = 1 THEN {"set", "move"} ELSE {"remove", "drain"}

\* run is at its select
WlSelect == [kind |-> "select", caller |-> 0, seq |-> 0]

\* a call that returns without waiting for the run loop
CallReturnedAtOnce(pending) == TRUE

\* a call on the wheel has returned: the channels are unbuffered, so the send
\* in the select of SetTimer, MoveTimer, RemoveTimer and Drain completes only
\* when the run loop receives the message
CallReturned(pending) == pending = {}

WlInit ==
    /\ wlPc = [c \in WlCallers |-> 0]
    /\ wlPend = [c \in WlCallers |-> {}]
    /\ wlLoop = WlSelect
    /\ wlLog = <<>>
    /\ wlTicks = 0

\* a caller issues its next operation once its previous call has returned
WlCall ==
    \E c \in WlCallers : \E kind \in WlKinds(c) :
       /\ wlPc[c] < WlMaxCalls
       /\ CallReturned(wlPend[c])
       /\ wlPc' = [wlPc EXCEPT ![c] = @ + 1]
       /\ wlPend' = [wlPend EXCEPT ![c] =
                       @ \cup {[kind |-> kind, caller |-> c, seq |-> wlPc[c] + 1]}]
       /\ UNCHANGED <<wlLoop, wlLog, wlTicks>>
       /\ UNCHANGED notWl

\* run, at its select: one of the ready channel cases is taken
WlReceive ==
    /\ wlLoop = WlSelect
    /\ \E c \in WlCallers :
         \E msg \in wlPend[c] :
            /\ wlLoop' = msg
            /\ wlPend' = [wlPend EXCEPT ![c] = @ \ {msg}]
    /\ UNCHANGED <<wlPc, wlLog, wlTicks>>
    /\ UNCHANGED notWl

\* run, at its select: the ticker case is taken
WlTick ==
    /\ wlLoop = WlSelect
    /\ wlTicks < WlMaxTicks
    /\ wlTicks' = wlTicks + 1
    /\ wlLoop' = [kind |-> "tick", caller |-> 0, seq |-> wlTicks + 1]
    /\ UNCHANGED <<wlPc, wlPend, wlLog>>
    /\ UNCHANGED notWl

\* run: onTick, setTask, removeTask, moveTask or drainAll returns and the
\* loop is back at its select
WlHandled ==
    /\ wlLoop # WlSelect
    /\ wlLog' = Append(wlLog, wlLoop)
    /\ wlLoop' = WlSelect
    /\ UNCHANGED <<wlPc, wlPend, wlTicks>>
    /\ UNCHANGED notWl

WlNext == WlCall \/ WlReceive \/ WlTick \/ WlHandled

----------------------------------------------------------------------------
(* rest/handler/timeouthandler.go: one request through timeoutHandler, the  *)
(* wrapped handler writing to the timeoutWriter from its own goroutine.     *)
(* The underlying ResponseWriter is a http.Flusher, as the one of net/http. *)
(* A section under tw.mu is one step.                                       *)

StatusOK == 200

StatusClientClosedRequest == 499

StatusServiceUnavailable == 503

\* the statuses the handler sets itself
ThHandlerCodes == {200, 500}

\* calls the handler makes on its ResponseWriter, at most
ThMaxCalls == 3

\* the cases of the select in ServeHTTP that can proceed
ThSelectReady(handler, ctxErr) ==
    (IF handler = "panicked" THEN {"panic"} ELSE {})
      \cup (IF handler = "returned" THEN {"done"} ELSE {})
      \cup (IF ctxErr # "nil" THEN {"ctx"} ELSE {})

\* the function handed to httpx.ErrorCtx: WriteHeader and the body
ThErrorResponse(ctxErr) ==
    <<[call |-> "WriteHeader",
       arg |-> IF ctxErr = "Canceled" THEN StatusClientClosedRequest
               ELSE StatusServiceUnavailable],
      [call |-> "Write", arg |-> "reason"]>>

\* case <-done: the status when it is not 200, then the buffered output
ThDoneResponse(code, buf) ==
    (IF code # StatusOK THEN <<[call |-> "WriteHeader", arg |-> code]>> ELSE <<>>)
      \o <<[call |-> "Write", arg |-> buf]>>

ThInit ==
    /\ thPc = "select"
    /\ thCtxErr = "nil"
    /\ thHandler = "running"
    /\ thCalls = 0
    /\ thBuf = 0
    /\ thWroteHeader = FALSE
    /\ thCode = StatusOK
    /\ thTimedOut = FALSE
    /\ thOut = <<>>
    /\ thLast = "none"

\* the client goes away, or the deadline of WithTimeout passes
ThCtxDone ==
    /\ thCtxErr = "nil"
    /\ thPc = "select"
    /\ thCtxErr' \in {"Canceled", "DeadlineExceeded"}
    /\ UNCHANGED <<thPc, thHandler, thCalls, thBuf, thWroteHeader, thCode, thTimedOut,
                   thOut, thLast>>
    /\ UNCHANGED notTh

\* timeoutWriter.Write
ThWrite ==
    /\ thHandler = "running"
    /\ thCalls < ThMaxCalls
    /\ thCalls' = thCalls + 1
    /\ IF thTimedOut
       THEN /\ thLast' = "ErrHandlerTimeout"
            /\ UNCHANGED <<thBuf, thWroteHeader, thCode>>
       ELSE /\ thLast' = "nil"
            /\ thBuf' = thBuf + 1
            /\ thWroteHeader' = TRUE
            /\ thCode' = IF thWroteHeader THEN thCode ELSE StatusOK
    /\ UNCHANGED <<thPc, thCtxErr, thHandler, thTimedOut, thOut>>
    /\ UNCHANGED notTh

\* timeoutWriter.WriteHeader, writeHeaderLocked
ThWriteHeader ==
    /\ thHandler = "running"
    /\ thCalls < ThMaxCalls
    /\ thCalls' = thCalls + 1
    /\ \E code \in ThHandlerCodes :
         IF ~thWroteHeader /\ ~thTimedOut
         THEN /\ thWroteHeader' = TRUE
              /\ thCode' = code
              /\ thLast' = "set"
         ELSE /\ UNCHANGED <<thWroteHeader, thCode>>
              /\ thLast' = "ignored"
    /\ UNCHANGED <<thPc, thCtxErr, thHandler, thBuf, thTimedOut, thOut>>
    /\ UNCHANGED notTh

\* timeoutWriter.Flush: tw.w.Write(tw.wbuf.Bytes()), wbuf.Reset(), flusher.Flush()
ThFlush ==
    /\ thHandler = "running"
    /\ thCalls < ThMaxCalls
    /\ thCalls' = thCalls + 1
    /\ thOut' = thOut \o <<[call |-> "Write", arg |-> thBuf], [call |-> "Flush", arg |-> 0]>>
    /\ thBuf' = 0
    /\ thLast' = "flushed"
    /\ UNCHANGED <<thPc, thCtxErr, thHandler, thWroteHeader, thCode, thTimedOut>>
    /\ UNCHANGED notTh

\* the wrapped handler returns: close(done)
ThHandlerReturn ==
    /\ thHandler = "running"
    /\ thHandler' = "returned"
    /\ UNCHANGED <<thPc, thCtxErr, thCalls, thBuf, thWroteHeader, thCode, thTimedOut,
                   thOut, thLast>>
    /\ UNCHANGED notTh

\* the wrapped handler panics: the panic goes to panicChan
ThHandlerPanic ==
    /\ thHandler = "running"
    /\ thHandler' = "panicked"
    /\ UNCHANGED <<thPc, thCtxErr, thCalls, thBuf, thWroteHeader, thCode, thTimedOut,
                   thOut, thLast>>
    /\ UNCHANGED notTh

\* ServeHTTP, case p := <-panicChan
ThCasePanic ==
    /\ thPc = "select"
    /\ "panic" \in ThSelectReady(thHandler, thCtxErr)
    /\ thPc' = "panicked"
    /\ UNCHANGED <<thCtxErr, thHandler, thCalls, thBuf, thWroteHeader, thCode, thTimedOut,
                   thOut, thLast>>
    /\ UNCHANGED notTh

\* ServeHTTP, case <-done
ThCaseDone ==
    /\ thPc = "select"
    /\ "done" \in ThSelectReady(thHandler, thCtxErr)
    /\ thOut' = thOut \o ThDoneResponse(thCode, thBuf)
    /\ thPc' = "served"
    /\ UNCHANGED <<thCtxErr, thHandler, thCalls, thBuf, thWroteHeader, thCode, thTimedOut,
                   thLast>>
    /\ UNCHANGED notTh

\* ServeHTTP, case <-ctx.Done()
ThCaseCtx ==
    /\ thPc = "select"
    /\ "ctx" \in ThSelectReady(thHandler, thCtxErr)
    /\ thOut' = thOut \o ThErrorResponse(thCtxErr)
    /\ thTimedOut' = TRUE
    /\ thPc' = "timedOut"
    /\ UNCHANGED <<thCtxErr, thHandler, thCalls, thBuf, thWroteHeader, thCode, thLast>>
    /\ UNCHANGED notTh

ThNext ==
    \/ ThCtxDone \/ ThWrite \/ ThWriteHeader \/ ThFlush \/ ThHandlerReturn
    \/ ThHandlerPanic \/ ThCasePanic \/ ThCaseDone \/ ThCaseCtx

----------------------------------------------------------------------------
(* zrpc/server.go setupInterceptors and zrpc/internal/rpcserver.go Start:   *)
(* the chain of unary server interceptors, and requests passing through it. *)
(* grpc calls chained interceptors in the order of the list, each calling   *)
(* the next one as its handler.                                             *)

\* requests sent through the chain, at most
IcMaxRequests == 2

IcConfs == [cpu : BOOLEAN, timeout : BOOLEAN, auth : BOOLEAN]

\* the interceptors that can answer without calling their handler
IcMayReject == {"breaker", "shedder", "auth"}

\* setupInterceptors: what it adds, in order
SetupInterceptors(c) ==
    (IF c.cpu THEN <<"shedder">> ELSE <<>>)
      \o (IF c.timeout THEN <<"timeout">> ELSE <<>>)
      \o (IF c.auth THEN <<"auth">> ELSE <<>>)

\* the interceptors Start builds in, then the added ones
StartChainAddedFirst(added) ==
    added \o <<"tracing", "crash", "stat", "prometheus", "breaker">>

StartChain(added) ==
    <<"tracing", "crash", "stat", "prometheus", "breaker">> \o added

IcInit ==
    /\ icConf \in IcConfs
    /\ icPc = "new"
    /\ icAdded = <<>>
    /\ icChain = <<>>
    /\ icState = "idle"
    /\ icTrace = <<>>
    /\ icBy = ""
    /\ icReqs = 0

\* NewServer: setupInterceptors
IcSetup ==
    /\ icPc = "new"
    /\ icAdded' = icAdded \o SetupInterceptors(icConf)
    /\ icPc' = "setup"
    /\ UNCHANGED <<icConf, icChain, icState, icTrace, icBy, icReqs>>
    /\ UNCHANGED notIc

\* rpcServer.Start
IcStart ==
    /\ icPc = "setup"
    /\ icChain' = StartChain(icAdded)
    /\ icPc' = "serving"
    /\ UNCHANGED <<icConf, icAdded, icState, icTrace, icBy, icReqs>>
    /\ UNCHANGED notIc

\* a request comes in
IcRequest ==
    /\ icPc = "serving"
    /\ icState # "running"
    /\ icReqs < IcMaxRequests
    /\ icReqs' = icReqs + 1
    /\ icState' = "running"
    /\ icTrace' = <<>>
    /\ icBy' = ""
    /\ UNCHANGED <<icConf, icPc, icAdded, icChain>>
    /\ UNCHANGED notIc

\* the request enters the next interceptor of the chain
IcEnter ==
    /\ icState = "running"
    /\ Len(icTrace) < Len(icChain)
    /\ icTrace' = Append(icTrace, icChain[Len(icTrace) + 1])
    /\ UNCHANGED <<icConf, icPc, icAdded, icChain, icState, icBy, icReqs>>
    /\ UNCHANGED notIc

\* the interceptor the request is in returns an error without calling on
IcReject ==
    /\ icState = "running"
    /\ icTrace # <<>>
    /\ icTrace[Len(icTrace)] \in IcMayReject
    /\ icState' = "rejected"
    /\ icBy' = icTrace[Len(icTrace)]
    /\ UNCHANGED <<icConf, icPc, icAdded, icChain, icTrace, icReqs>>
    /\ UNCHANGED notIc

\* the innermost interceptor calls the user handler
IcHandle ==
    /\ icState = "running"
    /\ Len(icTrace) = Len(icChain)
    /\ icTrace' = Append(icTrace, "handler")
    /\ icState' = "handled"
    /\ UNCHANGED <<icConf, icPc, icAdded, icChain, icBy, icReqs>>
    /\ UNCHANGED notIc

IcNext ==
    IcSetup \/ IcStart \/ IcRequest \/ IcEnter \/ IcReject \/ IcHandle

----------------------------------------------------------------------------
(* core/proc/shutdown.go: one listenerManager, functions being registered   *)
(* and notifyListeners called by gracefulStop and by Shutdown or WrapUp.    *)
(* group.RunSafe starts a goroutine for the listener; a section that only   *)
(* holds lm.lock for an append is one step.                                 *)

\* the functions that can be registered
LmNumFns == 2

\* calls of notifyListeners, at most
LmMaxFires == 2

LmFns == 1..LmNumFns

\* the goroutines calling notifyListeners
LmNotifiers == {1, 2}

\* the index of fn in the order of registration
LmIndex(fn) == CHOOSE i \in 1..Len(lmOrder) : lmOrder[i] = fn

LmRegistered(fn) == \E i \in 1..Len(lmOrder) : lmOrder[i] = fn

LmListed(fn) == \E i \in 1..Len(lmListeners) : lmListeners[i] = fn

\* notifyListeners: lm.listeners after group.Wait()
ListenersKeptAfterNotify(listeners) == listeners

ListenersAfterNotify(listeners) == <<>>

LmInit ==
    /\ lmListeners = <<>>
    /\ lmOrder = <<>>
    /\ lmLock = 0
    /\ lmNotify = [n \in LmNotifiers |-> "idle"]
    /\ lmState = [fn \in LmFns |-> "none"]
    /\ lmRuns = [fn \in LmFns |-> 0]
    /\ lmFires = 0

\* listenerManager.addListener
LmAddListener ==
    /\ lmLock = 0
    /\ \E fn \in LmFns :
         /\ ~LmRegistered(fn)
         /\ lmListeners' = Append(lmListeners, fn)
         /\ lmOrder' = Append(lmOrder, fn)
    /\ UNCHANGED <<lmLock, lmNotify, lmState, lmRuns, lmFires>>
    /\ UNCHANGED notLm

\* notifyListeners: lm.lock.Lock(), group.RunSafe(listener) for every listener
LmNotifyBegin ==
    /\ lmLock = 0
    /\ lmFires < LmMaxFires
    /\ \E n \in LmNotifiers :
         /\ lmNotify[n] = "idle"
         /\ lmLock' = n
         /\ lmNotify' = [lmNotify EXCEPT ![n] = "wait"]
    /\ lmState' = [fn \in LmFns |-> IF LmListed(fn) THEN "started" ELSE lmState[fn]]
    /\ lmFires' = lmFires + 1
    /\ UNCHANGED <<lmListeners, lmOrder, lmRuns>>
    /\ UNCHANGED notLm

\* the goroutine of RunSafe calls the listener
LmListenerCalled ==
    /\ \E fn \in LmFns :
         /\ lmState[fn] = "started"
         /\ lmState' = [lmState EXCEPT ![fn] = "running"]
         /\ lmRuns' = [lmRuns EXCEPT ![fn] = @ + 1]
    /\ UNCHANGED <<lmListeners, lmOrder, lmLock, lmNotify, lmFires>>
    /\ UNCHANGED notLm

\* the listener returns
LmListenerReturn ==
    /\ \E fn \in LmFns :
         /\ lmState[fn] = "running"
         /\ lmState' = [lmState EXCEPT ![fn] = "returned"]
    /\ UNCHANGED <<lmListeners, lmOrder, lmLock, lmNotify, lmRuns, lmFires>>
    /\ UNCHANGED notLm

\* notifyListeners: group.Wait() returns, lm.listeners = nil, Unlock
LmNotifyEnd ==
    /\ \E n \in LmNotifiers :
         /\ lmNotify[n] = "wait"
         /\ lmLock = n
         /\ \A fn \in LmFns : LmListed(fn) => lmState[fn] = "returned"
         /\ lmNotify' = [lmNotify EXCEPT ![n] = "idle"]
    /\ lmListeners' = ListenersAfterNotify(lmListeners)
    /\ lmLock' = 0
    /\ UNCHANGED <<lmOrder, lmState, lmRuns, lmFires>>
    /\ UNCHANGED notLm

LmNext ==
    \/ LmAddListener \/ LmNotifyBegin \/ LmListenerCalled \/ LmListenerReturn
    \/ LmNotifyEnd

----------------------------------------------------------------------------
(* core/service/servicegroup.go: one ServiceGroup, services being added,    *)
(* Start registering the shutdown listener, and Stop called by several      *)
(* goroutines beside that listener.  sg.stopOnce is syncx.Once(sg.doStop):  *)
(* the first call runs doStop, a call made meanwhile waits for it to end,   *)
(* a later one returns at once.                                             *)

\* the services that can be added
SgNumServices == 3

\* calls of sg.stopOnce, at most
SgMaxCalls == 3

SgServiceSet == 1..SgNumServices

\* the goroutines that call sg.stopOnce: two callers of Stop and the listener
SgCallers == {"stop1", "stop2", "listener"}

\* ServiceGroup.Add: push front
ServicesAddBack(services, service) == services \o <<service>>

ServicesAdd(services, service) == <<service>> \o services

SgInit ==
    /\ sgServices = <<>>
    /\ sgAdded = <<>>
    /\ sgListener = "none"
    /\ sgOnce = "new"
    /\ sgPc = [c \in SgCallers |-> "idle"]
    /\ sgCalls = 0
    /\ sgRange = <<>>
    /\ sgNext = 0
    /\ sgStopped = <<>>

\* ServiceGroup.Add
SgAdd ==
    /\ \E s \in SgServiceSet :
         /\ \A i \in 1..Len(sgAdded) : sgAdded[i] # s
         /\ sgServices' = ServicesAdd(sgServices, s)
         /\ sgAdded' = Append(sgAdded, s)
    /\ UNCHANGED <<sgListener, sgOnce, sgPc, sgCalls, sgRange, sgNext, sgStopped>>
    /\ UNCHANGED notSg

\* ServiceGroup.Start: proc.AddShutdownListener, then doStart
SgStart ==
    /\ sgListener = "none"
    /\ sgListener' = "registered"
    /\ UNCHANGED <<sgServices, sgAdded, sgOnce, sgPc, sgCalls, sgRange, sgNext, sgStopped>>
    /\ UNCHANGED notSg

\* sg.stopOnce() is called: by Stop, or by the shutdown listener when fired
SgStopOnce ==
    /\ sgCalls < SgMaxCalls
    /\ \E c \in SgCallers :
         /\ sgPc[c] = "idle"
         /\ c = "listener" => sgListener = "registered"
         /\ sgPc' = [sgPc EXCEPT ![c] =
                CASE sgOnce = "new" -> "doStop"
                  [] sgOnce = "running" -> "waiting"
                  [] OTHER -> "idle"]
         /\ sgListener' = IF c = "listener" THEN "fired" ELSE sgListener
    /\ sgCalls' = sgCalls + 1
    /\ IF sgOnce = "new"
       THEN sgOnce' = "running" /\ sgRange' = sgServices /\ sgNext' = 1
       ELSE UNCHANGED <<sgOnce, sgRange, sgNext>>
    /\ UNCHANGED <<sgServices, sgAdded, sgStopped>>
    /\ UNCHANGED notSg

\* doStop: service.Stop() for the next service of the loop
SgDoStop ==
    /\ sgOnce = "running"
    /\ sgNext <= Len(sgRange)
    /\ sgStopped' = Append(sgStopped, sgRange[sgNext])
    /\ sgNext' = sgNext + 1
    /\ UNCHANGED <<sgServices, sgAdded, sgListener, sgOnce, sgPc, sgCalls, sgRange>>
    /\ UNCHANGED notSg

\* doStop returns: the Once is done, its caller returns
SgDoStopEnd ==
    /\ sgOnce = "running"
    /\ sgNext > Len(sgRange)
    /\ sgOnce' = "done"
    /\ sgPc' = [c \in SgCallers |-> IF sgPc[c] = "doStop" THEN "idle" ELSE sgPc[c]]
    /\ UNCHANGED <<sgServices, sgAdded, sgListener, sgCalls, sgRange, sgNext, sgStopped>>
    /\ UNCHANGED notSg

\* a call that waited for the running doStop returns
SgWaitEnd ==
    /\ sgOnce = "done"
    /\ \E c \in SgCallers :
         /\ sgPc[c] = "waiting"
         /\ sgPc' = [sgPc EXCEPT ![c] = "idle"]
    /\ UNCHANGED <<sgServices, sgAdded, sgListener, sgOnce, sgCalls, sgRange, sgNext,
                   sgStopped>>
    /\ UNCHANGED notSg

SgNext ==
    \/ SgAdd \/ SgStart \/ SgStopOnce \/ SgDoStop \/ SgDoStopEnd \/ SgWaitEnd

----------------------------------------------------------------------------
(* core/breaker/breaker.go errorWindow: a ring of the last reasons.  An     *)
(* entry is the reason with the time of day of the add in front of it.      *)

NumHistoryReasons == 5

\* calls of add, at most
EwMaxAdds == 7

\* the clock, at most
EwMaxTime == 1

EwReasonSet == {"timeout", "refused"}

\* fmt.Sprintf("%s %s", time.Now().Format(timeFormat), reason)
EwEntry(now, reason) == <<now, reason>>

NewErrorWindow ==
    [reasons |-> [i \in 0..(NumHistoryReasons - 1) |-> <<>>], index |-> 0, count |-> 0]

\* errorWindow.add without the cap of the count
ErrorWindowAddUncapped(ew, now, reason) ==
    [reasons |-> [ew.reasons EXCEPT ![ew.index] = EwEntry(now, reason)],
     index |-> (ew.index + 1) % NumHistoryReasons,
     count |-> ew.count + 1]

\* errorWindow.add
ErrorWindowAdd(ew, now, reason) ==
    [reasons |-> [ew.reasons EXCEPT ![ew.index] = EwEntry(now, reason)],
     index |-> (ew.index + 1) % NumHistoryReasons,
     count |-> Min(ew.count + 1, NumHistoryReasons)]

\* errorWindow.String: the entries from index - 1 down to index - count,
\* here as the sequence of the lines joined
ErrorWindowString(ew) ==
    [k \in 1..ew.count |->
        ew.reasons[((ew.index - k) + NumHistoryReasons) % NumHistoryReasons]]

EwInit ==
    /\ ewWin = NewErrorWindow
    /\ ewLog = <<>>
    /\ ewNow = 0

\* time passes
EwTick ==
    /\ ewNow < EwMaxTime
    /\ ewNow' = ewNow + 1
    /\ UNCHANGED <<ewWin, ewLog>>
    /\ UNCHANGED notEw

\* ew.add(reason)
EwAdd ==
    /\ Len(ewLog) < EwMaxAdds
    /\ \E reason \in EwReasonSet :
         /\ ewWin' = ErrorWindowAdd(ewWin, ewNow, reason)
         /\ ewLog' = Append(ewLog, EwEntry(ewNow, reason))
    /\ UNCHANGED ewNow
    /\ UNCHANGED notEw

EwNext ==
    EwTick \/ EwAdd

----------------------------------------------------------------------------
(* core/breaker/breaker.go loggedThrottle around googleBreaker: the error   *)
(* window filled by Reject and by doReq, and the report logError makes when *)
(* the breaker rejects.  The window of the googleBreaker is kept as its two *)
(* totals; a section under a lock is one step.                              *)

\* calls of allow and doReq, at most
LtMaxCalls == 7

\* promises and requests outstanding at a time, at most
LtMaxOutstanding == 1

\* nothing reported
LtNoReport == [err |-> "nil", errors |-> <<>>]

\* loggedThrottle.logError: the report on a circuit open
LogError(err, ew) ==
    IF err = "ErrServiceUnavailable"
    THEN [err |-> err, errors |-> ErrorWindowString(ew)]
    ELSE LtNoReport

\* the acceptable handed to the internal throttle by loggedThrottle.doReq:
\* the window after the call
LtAcceptableAdd(ew, accept, err) ==
    IF ~accept /\ err # "nil" THEN ErrorWindowAdd(ew, 0, err) ELSE ew

LtInit ==
    /\ ltAccepts = 0
    /\ ltTotal = 0
    /\ ltWin = NewErrorWindow
    /\ ltHeld = 0
    /\ ltRunning = 0
    /\ ltMarking = 0
    /\ ltReport = LtNoReport
    /\ ltCalls = 0

\* loggedThrottle.allow
LtAllow ==
    /\ ltCalls < LtMaxCalls
    /\ ltCalls' = ltCalls + 1
    /\ \E draw \in 0..(BrDraws - 1) :
         LET err == GoogleAccept(ltAccepts, ltTotal, draw)
         IN  /\ err = "nil" => ltHeld + ltRunning < LtMaxOutstanding
             /\ ltHeld' = IF err = "nil" THEN ltHeld + 1 ELSE ltHeld
             /\ ltReport' = LogError(err, ltWin)
    /\ UNCHANGED <<ltAccepts, ltTotal, ltWin, ltRunning, ltMarking>>
    /\ UNCHANGED notLt

\* promiseWithReason.Accept
LtPromiseAccept ==
    /\ ltHeld > 0
    /\ ltHeld' = ltHeld - 1
    /\ ltAccepts' = ltAccepts + 1
    /\ ltTotal' = ltTotal + 1
    /\ UNCHANGED <<ltWin, ltRunning, ltMarking, ltReport, ltCalls>>
    /\ UNCHANGED notLt

\* promiseWithReason.Reject: p.errWin.add(reason)
LtPromiseReject ==
    /\ ltHeld > 0
    /\ ltHeld' = ltHeld - 1
    /\ ltWin' = ErrorWindowAdd(ltWin, 0, "reason")
    /\ ltMarking' = ltMarking + 1
    /\ UNCHANGED <<ltAccepts, ltTotal, ltRunning, ltReport, ltCalls>>
    /\ UNCHANGED notLt

\* loggedThrottle.doReq up to the call of req
LtDoReq ==
    /\ ltCalls < LtMaxCalls
    /\ ltCalls' = ltCalls + 1
    /\ \E draw \in 0..(BrDraws - 1) :
         LET err == GoogleAccept(ltAccepts, ltTotal, draw)
         IN  /\ err = "nil" => ltHeld + ltRunning < LtMaxOutstanding
             /\ ltRunning' = IF err = "nil" THEN ltRunning + 1 ELSE ltRunning
             /\ ltReport' = LogError(DoReqRejected(FALSE, err).err, ltWin)
    /\ UNCHANGED <<ltAccepts, ltTotal, ltWin, ltHeld, ltMarking>>
    /\ UNCHANGED notLt

\* doReq from the return of req: the acceptable of loggedThrottle, then
\* markSuccess; a failure and a recovered panic go on to markFailure
LtDoReqEnd ==
    /\ ltRunning > 0
    /\ ltRunning' = ltRunning - 1
    /\ \E out \in ReqOutcomes, custom \in BOOLEAN :
         \E acc \in AcceptableResults(custom, out) :
            IF out = "panic"
            THEN /\ ltMarking' = ltMarking + 1
                 /\ UNCHANGED <<ltAccepts, ltTotal, ltWin>>
            ELSE /\ ltWin' = LtAcceptableAdd(ltWin, acc, out)
                 /\ IF DoReqMark(FALSE, acc) = 1
                    THEN /\ ltAccepts' = ltAccepts + 1
                         /\ ltTotal' = ltTotal + 1
                         /\ UNCHANGED ltMarking
                    ELSE /\ ltMarking' = ltMarking + 1
                         /\ UNCHANGED <<ltAccepts, ltTotal>>
    /\ ltReport' = LtNoReport
    /\ UNCHANGED <<ltHeld, ltCalls>>
    /\ UNCHANGED notLt

\* googleBreaker.markFailure
LtMarkFailure ==
    /\ ltMarking > 0
    /\ ltMarking' = ltMarking - 1
    /\ ltTotal' = ltTotal + 1
    /\ UNCHANGED <<ltAccepts, ltWin, ltHeld, ltRunning, ltReport, ltCalls>>
    /\ UNCHANGED notLt

\* the window of the googleBreaker passes without a call
LtWindowPasses ==
    /\ ltTotal > 0
    /\ ltAccepts' = 0
    /\ ltTotal' = 0
    /\ UNCHANGED <<ltWin, ltHeld, ltRunning, ltMarking, ltReport, ltCalls>>
    /\ UNCHANGED notLt

LtNext ==
    \/ LtAllow \/ LtPromiseAccept \/ LtPromiseReject \/ LtDoReq \/ LtDoReqEnd
    \/ LtMarkFailure \/ LtWindowPasses

----------------------------------------------------------------------------
(* core/load/adaptiveshedder.go: minRt and maxFlight over the counters as   *)
(* Pass fills them, the requests taking fractions of a ms as well as more   *)
(* than defaultMinRt.                                                      *)

\* the clock runs to MrMaxSteps * ShStep
MrMaxSteps == 2

\* calls of Pass, at most
MrMaxPasses == 3

\* what timex.Since(p.start) can give, in microseconds
MrElapsed == {0, 1, 1000, 1500, 2500, 2000000}

\* math.Ceil(float64(elapsed) / float64(time.Millisecond))
CeilMs(us) == (us + 999) \div 1000

MrInit ==
    /\ mrRtCounter = NewRollingWindow(ShBuckets, ShStep, TRUE)
    /\ mrPassCounter = NewRollingWindow(ShBuckets, ShStep, TRUE)
    /\ mrNow = ShStep
    /\ mrPasses = 0
    /\ mrZero = FALSE

\* time passes
MrTick ==
    /\ mrNow < MrMaxSteps * ShStep
    /\ mrNow' = mrNow + ShStep
    /\ UNCHANGED <<mrRtCounter, mrPassCounter, mrPasses, mrZero>>
    /\ UNCHANGED notMr

\* promise.Pass: rtCounter.Add(math.Ceil(rt)), passCounter.Add(1)
MrPass ==
    /\ mrPasses < MrMaxPasses
    /\ mrPasses' = mrPasses + 1
    /\ \E us \in MrElapsed :
         /\ mrRtCounter' = RwAdd(mrRtCounter, ShBucketDuration, mrNow, CeilMs(us))
         /\ mrZero' = (mrZero \/ us = 0)
    /\ mrPassCounter' = RwAdd(mrPassCounter, ShBucketDuration, mrNow, 1)
    /\ UNCHANGED mrNow
    /\ UNCHANGED notMr

MrNext ==
    MrTick \/ MrPass

----------------------------------------------------------------------------
(* zrpc/internal/balancer/p2c: one Pick call followed through its sampling  *)
(* loop, over pickers of one to PkMaxConns conns, healthy or not.  Build    *)
(* makes a p2cPicker only of a non-empty set of ready conns.                *)

\* the conns of the picker, at most
PkMaxConns == 4

\* subConn.success of a conn that is not healthy, and of one that is
PkSuccessSet == {ThrottleSuccess, ThrottleSuccess + 1}

\* a := Intn(n); b := Intn(n - 1), without the shift of b
PkIndicesUnshifted(a, b) == <<a, b>>

\* a := Intn(n); b := Intn(n - 1); if b >= a { b++ }
PkIndices(a, b) == <<a, IF b >= a THEN b + 1 ELSE b>>

\* the two conns of an attempt are healthy
PkBothHealthy(conns, pair) ==
    SubConnHealthy(conns[pair[1] + 1]) /\ SubConnHealthy(conns[pair[2] + 1])

PkInit ==
    /\ \E n \in 1..PkMaxConns :
         pkConns \in [1..n -> {[NewSubConn EXCEPT !.success = s] : s \in PkSuccessSet}]
    /\ pkPc = "idle"
    /\ pkI = 0
    /\ pkNode1 = 0
    /\ pkNode2 = 0
    /\ pkAttempts = <<>>
    /\ pkChosen = 0

\* Pick: the switch on len(p.conns)
PkSwitch ==
    /\ pkPc = "idle"
    /\ CASE Len(pkConns) = 1 -> pkNode1' = 1 /\ pkNode2' = 0 /\ pkPc' = "choose"
         [] Len(pkConns) = 2 -> pkNode1' = 1 /\ pkNode2' = 2 /\ pkPc' = "choose"
         [] OTHER -> pkPc' = "loop" /\ UNCHANGED <<pkNode1, pkNode2>>
    /\ UNCHANGED <<pkConns, pkI, pkAttempts, pkChosen>>
    /\ UNCHANGED notPk

\* Pick: one round of the sampling loop
PkAttempt ==
    /\ pkPc = "loop"
    /\ pkI < PickTimes
    /\ \E a \in 0..(Len(pkConns) - 1), b \in 0..(Len(pkConns) - 2) :
         LET pair == PkIndices(a, b)
         IN  /\ pkNode1' = pair[1] + 1
             /\ pkNode2' = pair[2] + 1
             /\ pkAttempts' = Append(pkAttempts, pair)
             /\ IF PkBothHealthy(pkConns, pair)
                THEN pkPc' = "choose" /\ pkI' = pkI
                ELSE /\ pkI' = pkI + 1
                     /\ pkPc' = IF pkI + 1 < PickTimes THEN "loop" ELSE "choose"
    /\ UNCHANGED <<pkConns, pkChosen>>
    /\ UNCHANGED notPk

\* Pick: chosen = p.choose(node1, node2), inflight and requests + 1, return
PkReturn ==
    /\ pkPc = "choose"
    /\ LET chosen == P2cChoose(pkConns, pkNode1, pkNode2, 0)
       IN  /\ pkChosen' = chosen
           /\ pkConns' = [pkConns EXCEPT ![chosen] =
                             [@ EXCEPT !.pick = 0, !.inflight = @ + 1, !.requests = @ + 1]]
    /\ pkPc' = "returned"
    /\ UNCHANGED <<pkI, pkNode1, pkNode2, pkAttempts>>
    /\ UNCHANGED notPk

PkNext ==
    PkSwitch \/ PkAttempt \/ PkReturn

----------------------------------------------------------------------------
(* Specifications: one subsystem runs, the others are parked *)

InitRw == RwInit /\ BrPark /\ ShPark /\ P2cPark /\ TwPark /\ RegPark /\ CachePark /\ UtPark /\ SdPark /\ RlPark /\ LcPark /\ WlPark /\ ThPark /\ IcPark /\ LmPark /\ SgPark /\ EwPark /\ LtPark /\ MrPark /\ PkPark

SpecRw == InitRw /\ [][RwNext]_vars

InitRwScenario == RwScenarioInit /\ BrPark /\ ShPark /\ P2cPark /\ TwPark /\ RegPark /\ CachePark /\ UtPark /\ SdPark /\ RlPark /\ LcPark /\ WlPark /\ ThPark /\ IcPark /\ LmPark /\ SgPark /\ EwPark /\ LtPark /\ MrPark /\ PkPark

SpecRwScenario == InitRwScenario /\ [][RwScenarioNext]_vars

InitBreaker == BrInit /\ RwPark /\ ShPark /\ P2cPark /\ TwPark /\ RegPark /\ CachePark /\ UtPark /\ SdPark /\ RlPark /\ LcPark /\ WlPark /\ ThPark /\ IcPark /\ LmPark /\ SgPark /\ EwPark /\ LtPark /\ MrPark /\ PkPark

SpecBreaker == InitBreaker /\ [][BrNext]_vars

SpecBreakerRecovery == InitBreaker /\ [][BrRecoveryNext]_vars

InitShedder == ShInit /\ RwPark /\ BrPark /\ P2cPark /\ TwPark /\ RegPark /\ CachePark /\ UtPark /\ SdPark /\ RlPark /\ LcPark /\ WlPark /\ ThPark /\ IcPark /\ LmPark /\ SgPark /\ EwPark /\ LtPark /\ MrPark /\ PkPark

SpecShedder == InitShedder /\ [][ShNext]_vars

InitP2c == P2cInit /\ RwPark /\ BrPark /\ ShPark /\ TwPark /\ RegPark /\ CachePark /\ UtPark /\ SdPark /\ RlPark /\ LcPark /\ WlPark /\ ThPark /\ IcPark /\ LmPark /\ SgPark /\ EwPark /\ LtPark /\ MrPark /\ PkPark

SpecP2c == InitP2c /\ [][P2cNext]_vars

\* the picker built for two ready sub-conns
InitP2cTwo == P2cInit /\ Len(p2cConns) = 2 /\ RwPark /\ BrPark /\ ShPark /\ TwPark /\ RegPark /\ CachePark /\ UtPark /\ SdPark /\ RlPark /\ LcPark /\ WlPark /\ ThPark /\ IcPark /\ LmPark /\ SgPark /\ EwPark /\ LtPark /\ MrPark /\ PkPark

SpecP2cTwo == InitP2cTwo /\ [][P2cNext]_vars

InitWheel == TwInit /\ RwPark /\ BrPark /\ ShPark /\ P2cPark /\ RegPark /\ CachePark /\ UtPark /\ SdPark /\ RlPark /\ LcPark /\ WlPark /\ ThPark /\ IcPark /\ LmPark /\ SgPark /\ EwPark /\ LtPark /\ MrPark /\ PkPark

SpecWheel == InitWheel /\ [][TwNext]_vars

SpecWheelStop == InitWheel /\ [][TwStopNext]_vars

InitRegistry == RegInit /\ RwPark /\ BrPark /\ ShPark /\ P2cPark /\ TwPark /\ CachePark /\ UtPark /\ SdPark /\ RlPark /\ LcPark /\ WlPark /\ ThPark /\ IcPark /\ LmPark /\ SgPark /\ EwPark /\ LtPark /\ MrPark /\ PkPark

SpecRegistry == InitRegistry /\ [][RegNext]_vars

InitRegistryOne == RegInitFor({1}) /\ RwPark /\ BrPark /\ ShPark /\ P2cPark /\ TwPark /\ CachePark /\ UtPark /\ SdPark /\ RlPark /\ LcPark /\ WlPark /\ ThPark /\ IcPark /\ LmPark /\ SgPark /\ EwPark /\ LtPark /\ MrPark /\ PkPark

SpecRegistryRestart == InitRegistryOne /\ [][RegRestartNext]_vars

InitCache == CacheInit /\ RwPark /\ BrPark /\ ShPark /\ P2cPark /\ TwPark /\ RegPark /\ UtPark /\ SdPark /\ RlPark /\ LcPark /\ WlPark /\ ThPark /\ IcPark /\ LmPark /\ SgPark /\ EwPark /\ LtPark /\ MrPark /\ PkPark

SpecCache == InitCache /\ [][CacheNext]_vars

InitTimeout == UtInit /\ RwPark /\ BrPark /\ ShPark /\ P2cPark /\ TwPark /\ RegPark /\ CachePark /\ SdPark /\ RlPark /\ LcPark /\ WlPark /\ ThPark /\ IcPark /\ LmPark /\ SgPark /\ EwPark /\ LtPark /\ MrPark /\ PkPark

SpecTimeout == InitTimeout /\ [][UtNext]_vars

InitShutdown == SdInit /\ RwPark /\ BrPark /\ ShPark /\ P2cPark /\ TwPark /\ RegPark /\ CachePark /\ UtPark /\ RlPark /\ LcPark /\ WlPark /\ ThPark /\ IcPark /\ LmPark /\ SgPark /\ EwPark /\ LtPark /\ MrPark /\ PkPark

SpecShutdown == InitShutdown /\ [][SdNext]_vars

InitReload == RlInit /\ RwPark /\ BrPark /\ ShPark /\ P2cPark /\ TwPark /\ RegPark /\ CachePark /\ UtPark /\ SdPark /\ LcPark /\ WlPark /\ ThPark /\ IcPark /\ LmPark /\ SgPark /\ EwPark /\ LtPark /\ MrPark /\ PkPark

SpecReload == InitReload /\ [][RlNext]_vars

InitLimitedCache == LcInit /\ RwPark /\ BrPark /\ ShPark /\ P2cPark /\ TwPark /\ RegPark /\ CachePark /\ UtPark /\ SdPark /\ RlPark /\ WlPark /\ ThPark /\ IcPark /\ LmPark /\ SgPark /\ EwPark /\ LtPark /\ MrPark /\ PkPark

SpecLimitedCache == InitLimitedCache /\ [][LcNext]_vars

InitWheelLoop == WlInit /\ RwPark /\ BrPark /\ ShPark /\ P2cPark /\ TwPark /\ RegPark /\ CachePark /\ UtPark /\ SdPark /\ RlPark /\ LcPark /\ ThPark /\ IcPark /\ LmPark /\ SgPark /\ EwPark /\ LtPark /\ MrPark /\ PkPark

SpecWheelLoop == InitWheelLoop /\ [][WlNext]_vars

InitTimeoutHandler == ThInit /\ RwPark /\ BrPark /\ ShPark /\ P2cPark /\ TwPark /\ RegPark /\ CachePark /\ UtPark /\ SdPark /\ RlPark /\ LcPark /\ WlPark /\ IcPark /\ LmPark /\ SgPark /\ EwPark /\ LtPark /\ MrPark /\ PkPark

SpecTimeoutHandler == InitTimeoutHandler /\ [][ThNext]_vars

InitInterceptors == IcInit /\ RwPark /\ BrPark /\ ShPark /\ P2cPark /\ TwPark /\ RegPark /\ CachePark /\ UtPark /\ SdPark /\ RlPark /\ LcPark /\ WlPark /\ ThPark /\ LmPark /\ SgPark /\ EwPark /\ LtPark /\ MrPark /\ PkPark

SpecInterceptors == InitInterceptors /\ [][IcNext]_vars

InitListeners == LmInit /\ RwPark /\ BrPark /\ ShPark /\ P2cPark /\ TwPark /\ RegPark /\ CachePark /\ UtPark /\ SdPark /\ RlPark /\ LcPark /\ WlPark /\ ThPark /\ IcPark /\ SgPark /\ EwPark /\ LtPark /\ MrPark /\ PkPark

SpecListeners == InitListeners /\ [][LmNext]_vars

InitServiceGroup == SgInit /\ RwPark /\ BrPark /\ ShPark /\ P2cPark /\ TwPark /\ RegPark /\ CachePark /\ UtPark /\ SdPark /\ RlPark /\ LcPark /\ WlPark /\ ThPark /\ IcPark /\ LmPark /\ EwPark /\ LtPark /\ MrPark /\ PkPark

SpecServiceGroup == InitServiceGroup /\ [][SgNext]_vars

InitErrorWindow == EwInit /\ RwPark /\ BrPark /\ ShPark /\ P2cPark /\ TwPark /\ RegPark /\ CachePark /\ UtPark /\ SdPark /\ RlPark /\ LcPark /\ WlPark /\ ThPark /\ IcPark /\ LmPark /\ SgPark /\ LtPark /\ MrPark /\ PkPark

SpecErrorWindow == InitErrorWindow /\ [][EwNext]_vars

InitLoggedThrottle == LtInit /\ RwPark /\ BrPark /\ ShPark /\ P2cPark /\ TwPark /\ RegPark /\ CachePark /\ UtPark /\ SdPark /\ RlPark /\ LcPark /\ WlPark /\ ThPark /\ IcPark /\ LmPark /\ SgPark /\ EwPark /\ MrPark /\ PkPark

SpecLoggedThrottle == InitLoggedThrottle /\ [][LtNext]_vars

InitMinRt == MrInit /\ RwPark /\ BrPark /\ ShPark /\ P2cPark /\ TwPark /\ RegPark /\ CachePark /\ UtPark /\ SdPark /\ RlPark /\ LcPark /\ WlPark /\ ThPark /\ IcPark /\ LmPark /\ SgPark /\ EwPark /\ LtPark /\ PkPark

SpecMinRt == InitMinRt /\ [][MrNext]_vars

InitPick == PkInit /\ RwPark /\ BrPark /\ ShPark /\ P2cPark /\ TwPark /\ RegPark /\ CachePark /\ UtPark /\ SdPark /\ RlPark /\ LcPark /\ WlPark /\ ThPark /\ IcPark /\ LmPark /\ SgPark /\ EwPark /\ LtPark /\ MrPark

SpecPick == InitPick /\ [][PkNext]_vars

----------------------------------------------------------------------------
(* Properties *)

\* C8: a Reduce visits buckets whose Sum and Count totals are exactly the
\* values and the number of the Adds made within the last size
\* interval-aligned buckets (the current bucket left out with
\* IgnoreCurrentBucket); nothing older is counted, nothing inside is missed.
C8_ReduceIsWindow ==
    /\ rwOut.sum = rwOut.wantSum
    /\ rwOut.count = rwOut.wantCount

\* a Reduce that summed something after the window had to slide
C8_Witness ==
    /\ rwOut.slid
    /\ rwOut.count > 0
    /\ rwOut.sum > 0
    /\ rwAdds > rwOut.count

\* C3: accept admits whenever dropRatio = max(0, (t - 5 - 1.5a) / (t + 1))
\* is 0, in particular whenever t <= 5, and otherwise returns
\* ErrServiceUnavailable exactly when the draw r is below dropRatio.
C3_AcceptRule ==
    LET a == brLast.accepts
        t == brLast.total
        over == 2 * t - 10 - 3 * a      \* 2 (t - 5 - 1.5 a)
    IN  /\ (t <= 5 => brLast.err = "nil")
        /\ (over <= 0 => brLast.err = "nil")
        /\ brLast.err = "ErrServiceUnavailable"
             <=> (over > 0 /\ brLast.draw * (2 * t + 2) < over * BrDraws)

\* a rejection on a history with accepted requests in it
C3_Witness ==
    /\ brLast.err = "ErrServiceUnavailable"
    /\ brLast.accepts > 0

\* C1: flying equals the number of admitted requests whose promise is not yet
\* resolved (an admitting Allow adds 1, a rejecting Allow nothing, Pass and
\* Fail take 1 away) and is never negative.
C1_FlyingIsOutstanding ==
    /\ shFlying = ShTotalPromises(shPromises)
    /\ shFlying >= 0

\* requests still in flight right after an Allow was rejected, promises passed
C1_Witness ==
    /\ shFlying >= 2
    /\ shRet = "ErrServiceOverloaded"
    /\ shPasses > 0

\* C4: Allow returns ErrServiceOverloaded iff (CPU >= cpuThreshold or
\* stillHot) and (avgFlying > maxFlight and flying > maxFlight); a drop sets
\* droppedRecently and leaves flying unchanged.
C4_DropIff ==
    [][shRet' # "none" =>
        LET maxFlight == ShMaxFlight(shPassCounter, shRtCounter, shNow)
            hot == /\ shDroppedRecently
                   /\ shNow - shOverloadTime < 1000
            highThru == /\ shAvgFlying > maxFlight * ShAvgScale
                        /\ shFlying > maxFlight
        IN  /\ shRet' = "ErrServiceOverloaded"
                 <=> ((shCpu >= CpuThreshold \/ hot) /\ highThru)
            /\ shRet' = "ErrServiceOverloaded"
                 => (shDroppedRecently' /\ shFlying' = shFlying)]_vars

\* C2: for any interleaving of Pick calls and Done callbacks, the inflight of
\* every sub-conn equals its number of picks whose Done has not been invoked
\* (a Pick adds 1 to the conn it returns, its Done takes 1 from the same
\* conn) and is never negative.
C2_InflightIsOutstanding ==
    \A c \in DOMAIN p2cConns :
        /\ p2cConns[c].inflight = P2cCount(p2cPending, c)
        /\ p2cConns[c].inflight >= 0

\* two picks outstanding on one conn after a Done has run on it
C2_Witness ==
    /\ p2cDones > 0
    /\ \E c \in DOMAIN p2cConns :
         /\ p2cConns[c].inflight = 2
         /\ p2cConns[c].last > 0

\* C5: a task scheduled with SetTimer(k, v, d) on a key with nothing pending,
\* and not moved, re-set, removed or drained afterwards, is executed on the
\* floor(d/interval)-th tick after the set (the first tick when d < interval)
\* and on no tick before it.
C5_SetFiresOnItsTick ==
    [][\A k \in TwKeys :
         /\ (twTickedPos' # twTickedPos /\ twPlan[k].kind = "set" /\ TwFalls(twPlan[k]))
               => k \in twRan'
         /\ twPlan'[k].kind = "set" => k \notin twRan']_vars

\* C6: once RemoveTimer(k) has been processed, execute is not started for k
\* until k is set again, whether or not k was moved before the removal.
C6_RemovedNeverRuns ==
    \A k \in TwKeys : twPlan[k].kind = "cancelled" => k \notin twRan

\* a tick has just passed over the entry of a key that was moved and then
\* removed, and has not run it
C6_Witness ==
    \E k \in twSkipped :
        /\ twPlan[k].kind = "cancelled"
        /\ twPlan[k].moved
        /\ k \notin twRan

\* C7: after MoveTimer(k, d') with d' >= interval on a pending timer, k is
\* executed on the floor(d'/interval)-th tick after the move and on no tick
\* before it.
C7_MoveFiresOnItsTick ==
    [][\A k \in TwKeys :
         /\ (twTickedPos' # twTickedPos /\ twPlan[k].kind = "moved" /\ TwFalls(twPlan[k]))
               => k \in twRan'
         /\ twPlan'[k].kind = "moved" => k \notin twRan']_vars

\* C9: once every Monitor(endpoints, prefix, L) has returned and every
\* callback owed has been made, with the coordinator unchanged all along,
\* L.OnAdd has been invoked exactly once for every key under the prefix and
\* no watch-driven event has reached L; for the first listener and for one
\* that subscribes while another Monitor is in progress.
C9_MonitorAddsEveryKeyOnce ==
    (/\ regLog = RegInitialLog
     /\ \A l \in RegListenerSet : regPc[l] = "done")
      => \A l \in RegListenerSet :
            /\ \A k \in RegKeys : regKv[k] # 0 => regAdds[l][k] = 1
            /\ ~regWatched[l]

\* C10: concurrent Take(k, fetch) calls on an absent key: at most one fill
\* is in flight and it invokes fetch at most once, on a key that is absent;
\* the winner stores the value it fetched, a failed fetch stores nothing,
\* every caller that waited for the fill gets the winner's value or error
\* without fetching, and a caller that finds the key filled returns a stored
\* value without fetching.
C10_FillState ==
    /\ Cardinality(CacheFilling) <= 1
    /\ \A c \in CacheCallers : cachePc[c] = "fetch" => cacheData = CacheAbsent
    /\ \A n \in SfIds :
         LET call == cacheFlights[n]
         IN  /\ call.fetches <= 1
             /\ call.done /\ call.err # "nil" => call.stored = 0 /\ call.val = 0
             /\ call.done /\ call.err = "nil" /\ call.fetches = 1 =>
                  call.stored = call.val /\ call.val \in CacheVals
    /\ \A c \in CacheCallers :
         cachePc[c] = "done" =>
           IF cacheJoined[c] = 0
           THEN /\ cacheFetched[c] = 0
                /\ cacheErr[c] = "nil"
                /\ cacheVal[c] \in CacheVals
           ELSE LET call == cacheFlights[cacheJoined[c]]
                IN  /\ cacheVal[c] = call.val
                    /\ cacheErr[c] = call.err
                    /\ call.owner # c => cacheFetched[c] = 0
                    /\ cacheFetched[c] = call.fetches \/ call.owner # c

\* C10, in full: the state rule above always holds, and a Take that starts
\* while the key is filled returns the value stored at that moment, counted
\* as a hit, with no fetch and no barrier call.
C10_OneFetchPerFill ==
    /\ []C10_FillState
    /\ [][(cacheTakes' # cacheTakes /\ cacheData # CacheAbsent) =>
            /\ cacheHit' = cacheHit + 1
            /\ cacheFlights' \in {cacheFlights} \cup
                                 {SfRelease(cacheFlights, cacheJoined, c) : c \in CacheCallers}
            /\ \E c \in CacheCallers :
                  /\ cachePc'[c] = "done"
                  /\ cacheJoined'[c] = 0
                  /\ cacheFetched'[c] = 0
                  /\ cacheErr'[c] = "nil"
                  /\ cacheVal'[c] = cacheData]_vars

\* three callers are done: the winner of a fill that fetched and stored a
\* value, a caller that waited for that fill, and a caller that found the
\* key filled
C10_Witness ==
    \E w, x, y \in CacheCallers :
       /\ cachePc[w] = "done" /\ cachePc[x] = "done" /\ cachePc[y] = "done"
       /\ cacheJoined[w] # 0 /\ cacheFlights[cacheJoined[w]].owner = w
       /\ cacheFresh[w] /\ cacheFetched[w] = 1
       /\ x # w /\ cacheJoined[x] = cacheJoined[w] /\ cacheVal[x] = cacheVal[w]
       /\ cacheJoined[y] = 0 /\ cacheVal[y] = cacheVal[w]

\* C11: while a prefix is watched, a Put(k, v) event sets values[prefix][k]
\* to v and OnAdd(k, v) goes to the listeners; a Delete(k) event removes k
\* from values[prefix] and OnDelete(k, v_old) goes to the listeners, v_old
\* being the value the key held before the delete.
C11_WatchDelivers ==
    /\ regLast.kind = "OnAdd" =>
          /\ regValues.ok /\ regValues.m[regLast.key] = regLast.val
          /\ regLast.val \in RegVals
    /\ regLast.kind = "OnDelete" =>
          /\ regValues.m[regLast.key] = 0
          /\ regLast.val = regLast.prev

\* C12, as claimed: the interceptor has given control back once the clock
\* passes the end of the context, whatever the handler does; when the
\* context ended before the handler, what it gives back is the status of
\* ctx.Err() (DeadlineExceeded, Canceled on cancellation) and nothing the
\* worker writes later; the handler's result is given back only when the
\* handler ended first.
C12_TimeoutBound ==
    /\ (utCtxErr # "nil" /\ utNow > utCtxTime) => utPc \in {"returned", "panicked"}
    /\ (utPc \in {"returned", "panicked"} /\ utFirst = "ctx") => utRet = CtxStatus(utCtxErr)
    /\ utRet.kind = "value" =>
         /\ utFirst = "handler"
         /\ utRet.resp = utResp /\ utRet.err = utErr
    /\ utRet.kind = "panic" => utFirst = "handler"

\* C12, amended: the same bound; a handler that has not ended when the
\* interceptor returns gets the status of ctx.Err() returned in its place and
\* its later result is discarded; a result or panic is passed on only from a
\* handler that had ended before the interceptor returned; and when the
\* context ends while the interceptor waits in its select, before the
\* handler, the status is what is returned.
C12_TimeoutBoundAmended ==
    /\ (utCtxErr # "nil" /\ utNow > utCtxTime) => utPc \in {"returned", "panicked"}
    /\ (utPc \in {"returned", "panicked"} /\ utFirst \in {"none", "ctx"}
          /\ (utCtxTime > 0 \/ utWorker \in {"start", "handler"} \/ utRet.kind = "status"))
         => /\ utCtxErr # "nil"
            /\ utRet = CtxStatus(utCtxErr)
            /\ utRet.err \in {"codes.DeadlineExceeded", "codes.Canceled"}
    /\ utRet.kind = "value" =>
         /\ utDone /\ utFirst # "none"
         /\ utRet.resp = utResp /\ utRet.err = utErr
         /\ utRet.resp \in UtResps
    /\ utRet.kind = "panic" => utWorker = "exited" /\ ~utDone

\* the deadline passed while the interceptor waited, DeadlineExceeded was
\* returned, and the handler ended afterwards: its result is in resp and err
\* and not in what the caller got
C12_Witness ==
    /\ utPc = "returned"
    /\ utCtxErr = "DeadlineExceeded" /\ utCtxTime > 0
    /\ utRet = CtxStatus("DeadlineExceeded")
    /\ utWorker = "exited" /\ utResp # 0 /\ utErr = "err"

\* C13: every admitted Do / DoWithAcceptable / DoWithFallback call adds
\* exactly one outcome to the rolling window: a success (sum+1, count+1) if
\* acceptable(err) holds for the error req returned, a failure (sum+0,
\* count+1) otherwise; a panic of req adds one failure and is raised again.
C13_OneOutcomePerCall ==
    [][brDo'.kind \in {"returned", "panicked"} =>
         LET before == BrHistory(brStat, brNow)
             after == BrHistory(brStat', brNow')
         IN  /\ after.total = before.total + 1
             /\ after.accepts = before.accepts
                                  + (IF brDo'.kind = "returned" /\ brDo'.acceptable
                                     THEN 1 ELSE 0)
             /\ brDo'.kind = "panicked" <=> brDo'.ret = [by |-> "panic", err |-> "panic"]
             /\ brDo'.kind = "returned" => brDo'.ret.by = "req"]_vars

\* a call whose req returned an error that acceptable takes for a success
\* has just been counted, with failures already in the window
C13_Witness ==
    /\ brDo.kind = "returned" /\ brDo.acceptable /\ brDo.ret.err = "err"
    /\ BrHistory(brStat, brNow).total > BrHistory(brStat, brNow).accepts
    /\ BrHistory(brStat, brNow).accepts >= 2

\* C14: a rejected Do / DoWithFallback call does not execute req and leaves
\* the rolling window as it was; it returns fallback(ErrServiceUnavailable)
\* when a fallback was given and ErrServiceUnavailable otherwise.
C14_RejectionLeavesWindow ==
    [][brDo'.kind = "rejected" =>
         /\ brStat' = brStat
         /\ BrHistory(brStat', brNow') = BrHistory(brStat, brNow)
         /\ brPending' = brPending /\ ~brDo'.ran
         /\ brLast'.err = "ErrServiceUnavailable"
         /\ brDo'.ret = IF brDo'.fallback
                        THEN [by |-> "fallback", err |-> "ErrServiceUnavailable"]
                        ELSE [by |-> "doReq", err |-> "ErrServiceUnavailable"]]_vars

\* a call with a fallback has just been rejected while another admitted
\* call is still running
C14_Witness ==
    /\ brDo.kind = "rejected" /\ brDo.fallback
    /\ brDo.ret = [by |-> "fallback", err |-> "ErrServiceUnavailable"]
    /\ brPending > 0

\* C15: on SIGTERM or SIGINT the wrap-up listeners are fired first, the
\* shutdown listeners are fired wrapUpTime (1 s) later and never before the
\* wrap-up listeners, and the process is killed once the configured grace
\* period, measured from the signal, has elapsed, whether or not the
\* listeners have finished.
C15_ShutdownSequence ==
    /\ sdFiredAt["wrapUp"] # -1 => sdFiredAt["wrapUp"] = sdSigAt
    /\ sdFiredAt["shutdown"] # -1 =>
         /\ sdFiredAt["wrapUp"] # -1
         /\ sdFiredAt["shutdown"] = sdSigAt + WrapUpTime
    /\ sdKilledAt # -1 => sdKilledAt = sdSigAt + sdGrace
    /\ (sdSigAt # -1 /\ sdNow > sdSigAt + sdGrace) => sdKilledAt # -1

\* C16: once Stop has closed stopChannel, a SetTimer, MoveTimer, RemoveTimer or
\* Drain call gets ErrClosed and leaves the slots, the entries and the key index
\* as they were, and no step starts the execute of any key.
C16_NoActionAfterStop ==
    [][(twStop \in {"closed", "returned"}) =>
         (/\ twRan' = {}
          /\ (twErr' # "none") =>
                (/\ twErr' = "ErrClosed"
                 /\ <<twSlots, twHeap, twTimers, twTickedPos>>' =
                        <<twSlots, twHeap, twTimers, twTickedPos>>))]_vars

\* C17: reload always completes and releases the cluster lock: while a reload
\* holds the lock and waits for the goroutines of the watch group, none of
\* them stands before a c.lock.Lock() (it could not move until the reload
\* unlocks, and the reload does not unlock until it has exited), whether it is
\* handling a watch event or finishing a load, and with a Monitor in progress.
C17_ReloadCompletes ==
    (\E r \in RlCalls : rlReload[r] = "wait") =>
        \A s \in RlSlots :
            (rlWatchers[s].pc # "none" /\ rlWatchers[s].group = rlGroup) =>
                rlWatchers[s].pc \notin RlNeedsLock

\* every Monitor has returned, every callback owed has been made and every
\* watcher has handled every event of the coordinator
RegQuiet ==
    /\ \A l \in RegListenerSet :
         /\ regPc[l] = "done"
         /\ regWatch[l].events = <<>>
         /\ regWatch[l].rev = regRev

\* C18: once events have stopped and everything owed is delivered, the key
\* set each subscribed listener is left with by its OnAdd and OnDelete calls,
\* applied in delivery order, is the key set of values[prefix].
C18_ListenerViewConverges ==
    RegQuiet =>
        \A l \in RegListenerSet :
            regView[l] = {k \in RegKeys : regValues.m[k] # 0}

\* C19: once the Set of every Take, every Del and every expiry callback has
\* returned, a key present in the cache map has a pending timer in the wheel.
C19_PresentKeyHasTimer ==
    (/\ cacheDelPc = "idle"
     /\ \A c \in CacheCallers : cachePc[c] \notin {"set", "setMove", "setNew"})
      => (DoGet(cacheData).ok => cacheTimer)

\* C20: after any sequence of set, move, remove, tick and drain, every key in
\* the key index maps to an entry that is not removed and is linked in the
\* slot the index records, and every entry linked in a slot and not removed
\* is the one indexed under its key.
C20_IndexMatchesSlots ==
    /\ \A k \in TwKeys :
         twTimers[k].item # 0 =>
           /\ ~twHeap[twTimers[k].item].removed
           /\ \E i \in 1..Len(twSlots[twTimers[k].pos]) :
                twSlots[twTimers[k].pos][i] = twTimers[k].item
    /\ \A p \in TwPositions : \A i \in 1..Len(twSlots[p]) :
         ~twHeap[twSlots[p][i]].removed =>
           twTimers[twHeap[twSlots[p][i]].key] = [pos |-> p, item |-> twSlots[p][i]]

\* C21: a key scheduled by one SetTimer call is executed at most once,
\* whatever MoveTimer calls follow, a MoveTimer with a delay below one
\* interval included: no step starts execute for a key that was executed
\* since its last SetTimer.
C21_ExecutedAtMostOnce ==
    [][\A k \in TwKeys : k \in twRan' => ~twFired[k]]_vars

\* C22: values[prefix] is monotonic: a load stores the coordinator's state of
\* a revision no older than any the view has reflected, and a watcher applies
\* only events newer than every revision reflected so far (no event is
\* applied twice, the view never steps back), also after the watch stream
\* failed and was restarted.
C22_ViewMonotonic ==
    [][\A l \in RegListenerSet :
         /\ (regPc[l] = "changes" /\ regPc'[l] = "deliver")
              => regResp[l].rev >= regHigh
         /\ (regWatch[l].events # <<>> /\ regWatch'[l].events = Tail(regWatch[l].events))
              => EventRev(regWatch[l]) > regHigh]_vars

\* C23: at most one watcher is active for the cluster and the prefix,
\* however many listeners have called Monitor for it.
C23_OneWatcherPerPrefix ==
    Cardinality({l \in RegListenerSet : regWatch[l].on}) <= 1

\* C24: after any sequence of set, move, remove, tick and drain, for every
\* key at most one entry that is not removed is linked in the slot lists.
C24_OneLiveEntryPerKey ==
    \A k \in TwKeys :
        Cardinality({id \in TwIds :
            /\ twHeap[id].key = k
            /\ ~twHeap[id].removed
            /\ \E p \in TwPositions : \E i \in 1..Len(twSlots[p]) : twSlots[p][i] = id}) <= 1

\* a key moved to a new entry while its old entry, removed, is still linked
C24_Witness ==
    \E k \in TwKeys : \E old \in TwIds, new \in TwIds :
        /\ twHeap[old].key = k /\ twHeap[old].removed
        /\ twHeap[new].key = k /\ ~twHeap[new].removed
        /\ \E p \in TwPositions : \E i \in 1..Len(twSlots[p]) : twSlots[p][i] = old
        /\ \E p \in TwPositions : \E i \in 1..Len(twSlots[p]) : twSlots[p][i] = new

\* what the claim says an Add of v at time now makes of the window before:
\* span = min(size, floor((now - lastTime) / interval)) buckets following the
\* old offset are reset, offset advances by span modulo size, lastTime is
\* snapped to the interval boundary, and then v is added to the current bucket
RwSlidThenAdded(before, after, interval, now, v) ==
    LET span == Min(before.size, (now - before.lastTime) \div interval)
        expired == {(before.offset + j) % before.size : j \in 1..span}
        offset == (before.offset + span) % before.size
    IN  /\ after.offset = offset
        /\ offset \in 0..(before.size - 1)
        /\ after.lastTime = IF span > 0
                            THEN now - ((now - before.lastTime) % interval)
                            ELSE before.lastTime
        /\ \A i \in 0..(before.size - 1) :
             after.buckets[i] =
               BucketAdd(IF i \in expired THEN EmptyBucket ELSE before.buckets[i],
                         IF i = offset THEN v ELSE 0)
               \/ (i # offset /\ after.buckets[i] =
                      IF i \in expired THEN EmptyBucket ELSE before.buckets[i])

\* the Adds of the example: 1 at t = 0 and 2 at t = 250
RwExampleAdds == <<[t |-> 0, v |-> 1], [t |-> 250, v |-> 2]>>

\* the sum of what a Reduce visits now
RwReduceSum == SumSeq(RwReduce(rwWin, RwScenario.interval, rwNow), "Sum")

\* every Add slides and adds as the claim says
RwEveryAddSlides ==
    [][rwAdds' = rwAdds + 1 =>
         RwSlidThenAdded(rwWin, rwWin', RwScenario.interval, rwNow,
                         rwLog'[Len(rwLog')].v)]_vars

\* C25: an Add slides the window by span, resetting the span buckets after
\* the old offset, advancing offset and snapping lastTime, and only then adds
\* the value; for size 5 and interval 100 ms, after add 1 at t = 0 and add 2
\* at t = 250 reduce sums to 3, the buckets at offsets 1 and 2 are zero and
\* the current bucket holds 2.
C25_AddSlidesThenAdds ==
    /\ RwEveryAddSlides
    /\ [](rwLog = RwExampleAdds =>
            /\ RwReduceSum = 3
            /\ rwWin.buckets[1] = EmptyBucket
            /\ rwWin.buckets[2] = EmptyBucket
            /\ rwWin.buckets[rwWin.offset].Sum = 2)

\* C25 as amended: the same, with the bucket at offset 1 zero and the
\* current bucket, which is the one at offset 2, holding 2.
C25_AddSlidesThenAddsAmended ==
    /\ RwEveryAddSlides
    /\ [](rwLog = RwExampleAdds =>
            /\ RwReduceSum = 3
            /\ rwWin.buckets[1] = EmptyBucket
            /\ rwWin.offset = 2
            /\ rwWin.buckets[2].Sum = 2)

\* the two Adds of the example have been made and a Reduce has run
C25_Witness ==
    /\ rwLog = RwExampleAdds
    /\ rwOut.sum = 3

\* the step is an Allow
ShAllowStep == shRet' \in {"nil", "ErrServiceOverloaded"}

\* C26: when Allow finds the CPU below the threshold, the shedder is still hot
\* iff droppedRecently is set and less than 1 s has passed since the CPU was
\* last observed at or above the threshold (then a high throughput drops the
\* request), and otherwise droppedRecently is cleared and the request is
\* admitted; hence once the CPU reading has stayed below the threshold for
\* 1 s, every Allow admits whatever flying and avgFlying are.
C26_CoolOff ==
    [][ShAllowStep /\ ~ShSystemOverloaded(shCpu) =>
         LET hot == shDroppedRecently /\ shNow - shOverloadTime < CoolOffDuration
             high == ShHighThru(shAvgFlying, shFlying,
                                ShMaxFlight(shPassCounter, shRtCounter, shNow))
         IN  /\ (hot /\ high) => shRet' = "ErrServiceOverloaded"
             /\ (hot /\ ~high) => (shRet' = "nil" /\ shDroppedRecently')
             /\ ~hot => (shRet' = "nil" /\ ~shDroppedRecently')
             /\ (shCoolSince # -1 /\ shNow - shCoolSince >= CoolOffDuration) => shRet' = "nil"]_vars

\* an Allow was admitted under high throughput, the CPU having been observed at
\* the threshold earlier and having stayed below it for 1 s since
C26_Witness ==
    /\ shRet = "nil"
    /\ shOverloadTime # 0
    /\ shCoolSince # -1
    /\ shNow - shCoolSince >= CoolOffDuration
    /\ ~shDroppedRecently
    /\ ShHighThru(shAvgFlying, shFlying - 1, ShMaxFlight(shPassCounter, shRtCounter, shNow))

\* C27: every bucket of the breaker's window has 0 <= Sum <= Count whatever
\* the interleaving of Accept and Reject, so history() has
\* 0 <= accepts <= total; a Reject of an admitted request adds 1 to total and
\* 0 to accepts.
C27_SumWithinCount ==
    /\ [](/\ \A i \in 0..(BrBuckets - 1) :
               /\ 0 <= brStat.buckets[i].Sum
               /\ brStat.buckets[i].Sum <= brStat.buckets[i].Count
          /\ 0 <= BrHistory(brStat, brNow).accepts
          /\ BrHistory(brStat, brNow).accepts <= BrHistory(brStat, brNow).total)
    /\ [][BrPromiseReject =>
            /\ BrHistory(brStat', brNow).total = BrHistory(brStat, brNow).total + 1
            /\ BrHistory(brStat', brNow).accepts = BrHistory(brStat, brNow).accepts]_vars

\* the window holds both an accepted and a rejected outcome in one bucket
C27_Witness ==
    \E i \in 0..(BrBuckets - 1) :
       /\ brStat.buckets[i].Sum > 0
       /\ brStat.buckets[i].Count > brStat.buckets[i].Sum

\* dropRatio on the history read now
BrDropRatioNow == DropRatio(BrHistory(brStat, brNow).accepts, BrHistory(brStat, brNow).total)

\* dropRatio on the history read at the same instant after the step
BrDropRatioNext == DropRatio(BrHistory(brStat', brNow).accepts, BrHistory(brStat', brNow).total)

\* dropRatio is below 1 and some draw admits
BrCanAdmit ==
    /\ BrDropRatioNow.num < BrDropRatioNow.den
    /\ \E draw \in 0..(BrDraws - 1) :
          GoogleAccept(BrHistory(brStat, brNow).accepts,
                       BrHistory(brStat, brNow).total, draw) = "nil"

\* after a whole window without an outcome history() is (0, 0), and an accept
\* on the history (0, 0) admits whatever the draw
BrIdleWindowForgets ==
    [][/\ BrWindowPasses =>
            BrHistory(brStat', brNow') = [accepts |-> 0, total |-> 0]
       /\ (BrAllow /\ BrHistory(brStat, brNow) = [accepts |-> 0, total |-> 0]) =>
            brLast'.err = "nil"]_vars

\* C28: dropRatio is always below 1, so from any history an accept can still
\* admit; every admitted request that succeeds lowers dropRatio; and when no
\* outcome is recorded for a whole window history() returns (0, 0) and the
\* next accept admits with certainty.
C28_RecoversWithoutHalfOpen ==
    /\ []BrCanAdmit
    /\ [][BrPromiseAccept =>
            BrDropRatioNext.num * BrDropRatioNow.den
              < BrDropRatioNow.num * BrDropRatioNext.den]_vars
    /\ BrIdleWindowForgets

\* C28 as amended: the same, with a success lowering dropRatio when it is
\* above zero and leaving it at zero otherwise.
C28_RecoversWithoutHalfOpenAmended ==
    /\ []BrCanAdmit
    /\ [][BrPromiseAccept =>
            IF BrDropRatioNow.num > 0
            THEN BrDropRatioNext.num * BrDropRatioNow.den
                   < BrDropRatioNow.num * BrDropRatioNext.den
            ELSE BrDropRatioNext.num = 0]_vars
    /\ BrIdleWindowForgets

\* an accept admitted on the empty history that an idle window left behind,
\* the breaker having dropped with a positive dropRatio before
C28_Witness ==
    /\ brNow >= BrBuckets * BrInterval
    /\ brLast.err = "nil"
    /\ brLast.total = 0
    /\ brStat.buckets[brStat.offset].Count > 0
    /\ brCalls > Protection + 1

\* conn c has not been picked for more than forcePick
P2cUnpicked(c) == p2cNow - p2cConns[c].pick > ForcePick

\* the conn the Pick of this step returns
P2cChosen == CHOOSE c \in 1..Len(p2cConns) : p2cConns'[c].inflight = p2cConns[c].inflight + 1

\* the step is a Pick: it alone raises an inflight count
P2cPickStep == \E c \in 1..Len(p2cConns) : p2cConns'[c].inflight = p2cConns[c].inflight + 1

\* choose on two conns: the lower load, except that a higher-loaded conn not
\* picked for more than 1 s is returned instead; the returned conn's pick
\* timestamp is set to now
P2cChoosesAsClaimed ==
    /\ \A c \in 1..2 :
         (SubConnLoad(p2cConns[c]) > SubConnLoad(p2cConns[3 - c]) /\ P2cUnpicked(c))
            => P2cChosen = c
    /\ \A c \in 1..2 :
         (SubConnLoad(p2cConns[c]) > SubConnLoad(p2cConns[3 - c]) /\ ~P2cUnpicked(c))
            => P2cChosen = 3 - c
    /\ p2cConns'[P2cChosen].pick = p2cNow

\* C29: choose returns the conn with the lower load, except that a
\* higher-loaded conn not picked for more than 1 s is returned instead and its
\* pick timestamp set to now; consequently, with two conns, a conn left
\* unpicked for more than 1 s is selected by the next Pick whatever its lag,
\* and the returned conn's pick timestamp is always refreshed.
C29_ForcedPick ==
    [][(Len(p2cConns) = 2 /\ P2cPickStep) =>
         /\ P2cChoosesAsClaimed
         /\ \A c \in 1..2 : P2cUnpicked(c) => P2cChosen = c]_vars

\* C29 as amended: the same, the conn left unpicked for more than 1 s being
\* selected by the next Pick unless the other conn has been left unpicked for
\* more than 1 s too and its load is not lower.
C29_ForcedPickAmended ==
    [][(Len(p2cConns) = 2 /\ P2cPickStep) =>
         /\ P2cChoosesAsClaimed
         /\ \A c \in 1..2 :
              (/\ P2cUnpicked(c)
               /\ ~(/\ P2cUnpicked(3 - c)
                    /\ SubConnLoad(p2cConns[3 - c]) >= SubConnLoad(p2cConns[c])))
                 => P2cChosen = c]_vars

\* with two conns, the one with the higher load was picked now although the
\* other was picked less than 1 s ago: it had been left unpicked
C29_Witness ==
    /\ Len(p2cConns) = 2
    /\ \E c \in 1..2 :
         /\ p2cConns[c].pick = p2cNow
         /\ p2cConns[c].inflight > 0
         /\ p2cConns[3 - c].pick # p2cNow
         /\ p2cNow - p2cConns[3 - c].pick <= ForcePick
         /\ SubConnLoad([p2cConns[c] EXCEPT !.inflight = @ - 1]) > SubConnLoad(p2cConns[3 - c])

\* every call on the cache has returned
LcQuiet == \A c \in LcCallers \cup {LcWheel} : lcPc[c] = LcIdle

\* at most LcLimit entries, the data map and the LRU list hold the same keys,
\* the list is in the order of last set or read
LcListMatchesData ==
    /\ Cardinality(lcData) <= LcLimit
    /\ ListKeys(lcList) = lcData
    /\ Len(lcList) = Cardinality(lcData)
    /\ lcList = lcRecent

\* the entry evicted on overflow is the one least recently set or read
LcEvictsOldest ==
    [][lcLast' # 0 => (lcRecent # <<>> /\ lcLast' = lcRecent[Len(lcRecent)])]_vars

\* C30: with WithLimit(L), after every Set, SetWithExpire, Take, Get and Del
\* the cache holds at most L entries, the data map and the LRU list contain
\* the same keys, the entry evicted on overflow is the one least recently set
\* or read, and the evicted key's timer is removed.
C30_LimitedLru ==
    /\ [](LcListMatchesData /\ (LcQuiet => lcEvicted \cap lcTimers = {}))
    /\ LcEvictsOldest

\* the part about the map and the list only
LcListPartHolds == []LcListMatchesData /\ LcEvictsOldest

\* a full cache has evicted a key
LcHasEvicted ==
    /\ LcQuiet
    /\ Cardinality(lcData) = LcLimit
    /\ lcEvicted # {}

\* message number seq of caller c has been handled
WlIsHandled(c, seq) == \E i \in 1..Len(wlLog) : wlLog[i].caller = c /\ wlLog[i].seq = seq

\* C31: the run loop handles one message at a time and the operations of one
\* caller in the order they were issued: when the loop takes up an operation,
\* no other message is being handled and every earlier operation of the same
\* caller has been handled completely; the log of handled messages lists each
\* caller's operations in the order of issue.
C31_OneAtATimeInOrder ==
    /\ [][(wlLoop' # wlLoop /\ wlLoop' # WlSelect) =>
            /\ wlLoop = WlSelect
            /\ wlLoop'.caller # 0 =>
                 \A n \in 1..(wlLoop'.seq - 1) : WlIsHandled(wlLoop'.caller, n)]_vars
    /\ [](\A i, j \in 1..Len(wlLog) :
            (i < j /\ wlLog[i].caller = wlLog[j].caller) => wlLog[i].seq < wlLog[j].seq)

\* a caller's SetTimer and then its MoveTimer have both been handled, with a
\* tick and an operation of the other caller handled as well
C31_Witness ==
    /\ \E i, j \in 1..Len(wlLog) :
         /\ i < j
         /\ wlLog[i].caller = 1 /\ wlLog[i].kind = "set"
         /\ wlLog[j].caller = 1 /\ wlLog[j].kind = "move"
    /\ \E i \in 1..Len(wlLog) : wlLog[i].kind = "tick"
    /\ \E i \in 1..Len(wlLog) : wlLog[i].caller = 2

\* the handler panicked and the worker has published the panic and exited
UtWorkerPanicked == utWorker = "exited" /\ ~utDone

\* C32: a panic of the handler is raised again on the interceptor's calling
\* goroutine and never swallowed: once the worker has published it and the
\* interceptor is through, the interceptor has panicked; the worker never
\* blocks publishing it (panicChan has room) nor taking the lock, so it
\* terminates once the handler has returned or panicked.
C32_PanicRaisedAgain ==
    /\ (UtWorkerPanicked /\ utPc \in {"returned", "panicked"}) => utRet.kind = "panic"
    /\ utWorker = "panicSend" => utPanicChan = 0
    /\ utWorker = "start" => ~utLock

\* the part of it that is about the worker only
UtWorkerNeverBlocks ==
    /\ utWorker = "panicSend" => utPanicChan = 0
    /\ utWorker = "start" => ~utLock

\* the panic came after the deadline had made the interceptor return
UtLatePanic ==
    /\ UtWorkerPanicked
    /\ utPc = "returned"
    /\ utFirst = "ctx" /\ utCtxTime > 0
    /\ utRet = CtxStatus("DeadlineExceeded")
    /\ utPanicChan = 1

\* after the timeout response, Write fails and WriteHeader is ignored
ThLateCallsRefused ==
    [][(thTimedOut /\ thCalls' = thCalls + 1 /\ thLast' # "flushed") =>
         /\ thLast' \in {"ErrHandlerTimeout", "ignored"}
         /\ UNCHANGED <<thBuf, thWroteHeader, thCode, thOut>>]_vars

\* C33: the TimeoutHandler answers 499 when the request context was cancelled
\* and 503 when its deadline expired, and once it has written that response
\* nothing of the handler reaches the client: the underlying ResponseWriter
\* has got the timeout response and nothing else, later Write calls fail
\* with ErrHandlerTimeout and later WriteHeader calls are ignored.
C33_TimeoutResponseOnly ==
    /\ [](thPc = "timedOut" =>
            thOut = <<[call |-> "WriteHeader",
                       arg |-> IF thCtxErr = "Canceled" THEN 499 ELSE 503],
                      [call |-> "Write", arg |-> "reason"]>>)
    /\ ThLateCallsRefused

\* the handler's buffered output was written to the underlying
\* ResponseWriter after the timeout response
ThLateFlush ==
    /\ thPc = "timedOut"
    /\ Len(thOut) = 4
    /\ thOut[1].call = "WriteHeader" /\ thOut[1].arg = 503
    /\ thOut[3] = [call |-> "Write", arg |-> 1]

IcEntered(x) == \E i \in 1..Len(icTrace) : icTrace[i] = x

IcInChain(x) == x = "handler" \/ \E i \in 1..Len(icChain) : icChain[i] = x

\* the request passes the stages it meets in the order given: a stage is
\* entered only after every earlier stage of the server's chain
IcPassesInOrder(order) ==
    \A i, j \in 1..Len(order) :
      (i < j /\ IcEntered(order[j]) /\ IcInChain(order[i])) =>
        \E p, q \in 1..Len(icTrace) :
          p < q /\ icTrace[p] = order[i] /\ icTrace[q] = order[j]

\* C34: an inbound RPC passes stat, then the shedder, then the breaker, then
\* timeout, then the user handler, and a request rejected by the shedder
\* never reaches the breaker interceptor.
C34_InterceptorOrder ==
    /\ IcPassesInOrder(<<"stat", "shedder", "breaker", "timeout", "handler">>)
    /\ (icState = "rejected" /\ icBy = "shedder") => ~IcEntered("breaker")

\* C34 as amended: an inbound RPC passes stat, then the breaker, then the
\* shedder, then timeout, then the user handler, and a request rejected by
\* the breaker never reaches the shedder interceptor.
C34_InterceptorOrderAmended ==
    /\ IcPassesInOrder(<<"stat", "breaker", "shedder", "timeout", "handler">>)
    /\ (icState = "rejected" /\ icBy = "breaker") => ~IcEntered("shedder")

\* a request was rejected by the breaker of a server that has a shedder
C34_Witness ==
    /\ icState = "rejected"
    /\ icBy = "breaker"
    /\ IcInChain("shedder")
    /\ IcEntered("stat")

\* a request went through all five stages
IcThroughAll ==
    /\ icState = "handled"
    /\ IcEntered("shedder")
    /\ IcEntered("timeout")

\* no registered listener is invoked more than once
LmAtMostOnce == \A fn \in LmFns : lmRuns[fn] <= 1

\* of two listeners fired together, the one registered later has completed
\* when the one registered earlier is called
LmReverseOrder ==
    \A f, g \in LmFns :
      (/\ LmListed(f) /\ LmListed(g)
       /\ LmIndex(f) < LmIndex(g)
       /\ lmState[f] \in {"running", "returned"}) => lmState[g] = "returned"

\* C35: the shutdown listeners run in the reverse order of their
\* registration, a listener registered later having completed before one
\* registered earlier starts, and each registered listener is invoked at
\* most once even if the listeners are fired again.
C35_ReverseOrderOnce ==
    LmReverseOrder /\ LmAtMostOnce

\* notifyListeners starts every registered listener before it waits, and
\* returns only when all of them have completed
LmFiredTogether ==
    /\ \A fn \in LmFns :
         (lmLock # 0 /\ LmListed(fn)) => lmState[fn] \in {"started", "running", "returned"}
    /\ [][(lmLock # 0 /\ lmLock' = 0) =>
            \A fn \in LmFns : LmListed(fn) => lmState[fn] = "returned"]_vars

\* C35 as amended: when the shutdown listeners are fired, they are all
\* started together and run concurrently, in no order, the firing ending
\* when all of them have completed, and each registered listener is invoked
\* at most once even if the listeners are fired again.
C35_TogetherOnce ==
    []LmAtMostOnce /\ LmFiredTogether

\* the listeners were fired twice, and a listener of the first firing ran once
C35_Witness ==
    /\ lmFires = 2
    /\ lmLock = 0
    /\ \E fn \in LmFns : lmRuns[fn] = 1 /\ ~LmListed(fn)
    /\ \A fn \in LmFns : LmRegistered(fn)

\* the listener registered first runs while the one registered later has not
\* been called yet
LmEarlierFirst ==
    /\ Len(lmListeners) = 2
    /\ lmState[lmListeners[1]] = "running"
    /\ lmState[lmListeners[2]] = "started"

\* the position of service s in the order of adding
SgAddedAt(s) == CHOOSE i \in 1..Len(sgAdded) : sgAdded[i] = s

\* the number of calls of s.Stop()
SgStopCount(s) == Cardinality({i \in 1..Len(sgStopped) : sgStopped[i] = s})

\* the services are stopped in the reverse of the order of adding
SgReverseOrder ==
    \A i, j \in 1..Len(sgStopped) :
      i < j => SgAddedAt(sgStopped[i]) > SgAddedAt(sgStopped[j])

\* C36: ServiceGroup stops its services in the reverse order in which they
\* were added and the stop sequence runs at most once: no service's Stop is
\* called twice, however many calls of Stop and of the shutdown listener
\* there are, and once the stop sequence has ended every service that was
\* in the group when it began has had its Stop called exactly once.
C36_StopOnceInReverse ==
    /\ SgReverseOrder
    /\ \A s \in SgServiceSet : SgStopCount(s) <= 1
    /\ sgOnce = "done" =>
         \A i \in 1..Len(sgRange) : SgStopCount(sgRange[i]) = 1

\* Stop was called twice and the listener fired, one of them while doStop
\* ran, and the three services were stopped
C36_Witness ==
    /\ sgOnce = "done"
    /\ sgCalls = 3
    /\ sgListener = "fired"
    /\ Len(sgStopped) = 3
    /\ \E c \in SgCallers : sgPc[c] = "waiting"

\* C39: after n calls of add, String() lists exactly the min(n, 5) latest
\* reasons, newest first, for every n, also after the ring index has
\* wrapped around.
C39_LatestFiveNewestFirst ==
    LET n == Len(ewLog)
        s == ErrorWindowString(ewWin)
    IN  /\ Len(s) = Min(n, 5)
        /\ \A k \in 1..Len(s) : s[k] = ewLog[n - k + 1]

\* the index has wrapped around and went on
C39_Witness ==
    /\ Len(ewLog) = 7
    /\ ewWin.index = 2
    /\ Len(ErrorWindowString(ewWin)) = 5
    /\ ErrorWindowString(ewWin)[1] # ErrorWindowString(ewWin)[2]

\* C37: whenever the breaker reports ErrServiceUnavailable its error window
\* is not empty, and every failure marked in the breaker has recorded a
\* reason in the error window beforehand.
C37_OpenHasReasons ==
    /\ [](ltReport.err = "ErrServiceUnavailable" => ltReport.errors # <<>>)
    /\ [][ltMarking' = ltMarking - 1 => ltWin.count > 0]_vars

\* a rejection was reported with reasons in the window
LtReportWithReasons ==
    /\ ltReport.err = "ErrServiceUnavailable"
    /\ Len(ltReport.errors) > 0

\* a rejection was reported with an empty error window
LtReportWithoutReasons ==
    /\ ltReport.err = "ErrServiceUnavailable"
    /\ ltReport.errors = <<>>

\* the buckets of rtCounter that Reduce visits
MrVisited == RwReduce(mrRtCounter, ShBucketDuration, mrNow)

\* those of them that hold data
MrData == {i \in 1..Len(MrVisited) : MrVisited[i].Count > 0}

\* the integer nearest to sum / count, halves upwards
MrNearest(sum, count) ==
    CHOOSE r \in 0..sum : 2 * r * count <= 2 * sum + count /\ 2 * sum + count < 2 * (r + 1) * count

\* maxFlight is as.maxPass() * as.windows * minRt / 1000, at least 1
MrMaxFlightAsStated ==
    /\ ShMaxFlight(mrPassCounter, mrRtCounter, mrNow) >= 1
    /\ ShMaxFlight(mrPassCounter, mrRtCounter, mrNow) =
         Max(1, (ShMaxPass(mrPassCounter, mrNow) * ShWindows
                   * ShMinRt(mrRtCounter, mrNow)) \div 1000)

MrCapped ==
    /\ \E i \in MrData : MrVisited[i].Sum = 2000 /\ MrVisited[i].Count = 1
    /\ Cardinality(MrData) = 1
    /\ ShMinRt(mrRtCounter, mrNow) = 1000

\* some attempt so far drew two healthy conns
PkFoundHealthy ==
    \E k \in 1..Len(pkAttempts) : PkBothHealthy(pkConns, pkAttempts[k])

\* C40: with n >= 3 conns every sampling attempt of Pick yields indices a, b
\* with 0 <= a < n, 0 <= b < n and a # b; at most 3 attempts are made; the
\* sampling stops at the first attempt whose two conns are both healthy; and
\* Pick returns a conn also when no attempt found two healthy conns.
C40_SamplingOfPick ==
    LET n == Len(pkConns)
    IN  /\ \A k \in 1..Len(pkAttempts) :
             /\ n >= 3
             /\ 0 <= pkAttempts[k][1] /\ pkAttempts[k][1] < n
             /\ 0 <= pkAttempts[k][2] /\ pkAttempts[k][2] < n
             /\ pkAttempts[k][1] # pkAttempts[k][2]
        /\ Len(pkAttempts) <= 3
        /\ \A k \in 1..(Len(pkAttempts) - 1) : ~PkBothHealthy(pkConns, pkAttempts[k])
        /\ (n >= 3 /\ pkPc \in {"choose", "returned"}) =>
             (Len(pkAttempts) = 3 \/ PkFoundHealthy)
        /\ (n >= 3 /\ pkPc = "loop") => ~PkFoundHealthy
        /\ pkPc = "returned" =>
             /\ pkChosen \in 1..n
             /\ pkChosen \in {pkNode1, pkNode2}
             /\ n >= 3 => pkChosen \in {pkAttempts[Len(pkAttempts)][1] + 1,
                                        pkAttempts[Len(pkAttempts)][2] + 1}

\* Pick returned a conn after three attempts none of which found two healthy
\* conns
C40_Witness ==
    /\ pkPc = "returned"
    /\ Len(pkAttempts) = 3
    /\ ~PkFoundHealthy
    /\ pkChosen # 0

\* the sampling stopped at the second attempt
PkStoppedEarly ==
    /\ pkPc = "returned"
    /\ Len(pkAttempts) = 2
    /\ PkFoundHealthy

=========================================================================
